---- MODULE Spec2Model ----
(***************************************************************************)
(* Allocator core of fluf: the layout descriptor, the allocer_t wrappers   *)
(* with their fallbacks, and the bump arena (std/allocers/bump.c) over a   *)
(* tracking mock of its backing allocator.                                 *)
(*                                                                         *)
(* The build modelled is the default one (NDEBUG not defined): a failed    *)
(* massert aborts the program.  usize and uintptr_t are UsizeBits wide;    *)
(* every usize operation wraps modulo 2^UsizeBits as the C one does.       *)
(***************************************************************************)
EXTENDS Integers, Sequences, FiniteSets, TLC

\* ------------------------------------------------------------------------
\* Bounds of the model
\* ------------------------------------------------------------------------

\* width of usize / uintptr_t in the model (64 in the build)
UsizeBits == 16

\* number of arena operations explored from bump_init
MaxOps == 4

\* ------------------------------------------------------------------------
\* usize arithmetic (core/type.h, core/math.h)
\* ------------------------------------------------------------------------

USIZE == 2 ^ UsizeBits

SIZE_MAX == USIZE - 1

NULL == 0

Wrap(x) == x % USIZE

\* a & b, one bit at a time
RECURSIVE BitAnd1(_, _)
BitAnd1(a, b) ==
    IF a = 0 \/ b = 0 THEN 0
    ELSE 2 * BitAnd1(a \div 2, b \div 2) + (IF a % 2 = 1 /\ b % 2 = 1 THEN 1 ELSE 0)

\* the table of a & b for hexadecimal digits
AndHex == [a \in 0..15 |-> [b \in 0..15 |-> BitAnd1(a, b)]]

\* a & b, one hexadecimal digit at a time
RECURSIVE BitAnd(_, _)
BitAnd(a, b) ==
    IF a = 0 \/ b = 0 THEN 0
    ELSE 16 * BitAnd(a \div 16, b \div 16) + AndHex[a % 16][b % 16]

\* ~x on a usize
BitNot(x) == SIZE_MAX - x

is_power_of_two_nozero(n) == BitAnd(n, Wrap(n - 1)) = 0

is_power_of_two(n) == (n > 0) /\ (BitAnd(n, Wrap(n - 1)) = 0)

\* (n + align - 1) & ~(align - 1); the caller has established the massert
align_up(n, align) == BitAnd(Wrap(n + align - 1), BitNot(Wrap(align - 1)))

\* n & ~(align - 1)
align_down(n, align) == BitAnd(n, BitNot(Wrap(align - 1)))

Max(a, b) == IF a > b THEN a ELSE b

Min(a, b) == IF a < b THEN a ELSE b

\* checked_add(a, b, &out): TRUE when a + b does not fit a usize
checked_add_overflows(a, b) == a + b > SIZE_MAX

\* checked_mul(a, b, &out): TRUE when a * b does not fit a usize
checked_mul_overflows(a, b) == a * b > SIZE_MAX

\* ------------------------------------------------------------------------
\* core/mem/layout.h
\* ------------------------------------------------------------------------

\* layout(size, align): the layout_t, or the abort of its massert
layout(size, align) ==
    IF is_power_of_two(align)
    THEN [abort |-> FALSE, size |-> size, align |-> align]
    ELSE [abort |-> TRUE, size |-> 0, align |-> 0]

\* layout_of_array(T, N) for a type of the given size and alignment: the
\* product is a usize product
layout_of_array(item_size, item_align, n) == layout(Wrap(item_size * n), item_align)

\* ------------------------------------------------------------------------
\* Constants of bump.c
\* ------------------------------------------------------------------------

CHUNK_ALIGN == 16

\* sizeof(chunk_footer_t): five pointer-sized fields
SIZEOF_FOOTER == 40

FOOTER_SIZE == align_up(SIZEOF_FOOTER, CHUNK_ALIGN)

PAGE == 4096

DEFAULT_CHUNK_SIZE_WITHOUT_FOOTER == PAGE - FOOTER_SIZE

\* ------------------------------------------------------------------------
\* State
\* ------------------------------------------------------------------------

VARIABLES
    \* the bump arena and its client
    sentinel,   \* address of EMPTY_CHUNK_SINGLETON in this build
    bump,       \* the bump_t: current_chunk, limit, min_align
    chunks,     \* footer address -> chunk_footer_t (the sentinel included)
    backing,    \* the tracking mock behind bump->backing
    allocs,     \* blocks handed out since the last reset/deinit, in order
    last,       \* the call just made: arguments, result, state before it
    limited,    \* the limit in force was set while the arena was Empty
    aborted,    \* a massert failed
    nops,       \* calls made so far
    \* the allocer_t wrappers over the static-buffer mock
    vtable,     \* which slots of the allocer's vtable are set
    mock,       \* the mock's BumpState: buffer, offset, counters
    held,       \* blocks the client holds, in order
    call,       \* the wrapper call just made, with the backend calls it made
    ncalls,     \* wrapper calls made so far
    \* the layout constructor
    lay,        \* the layout() call just made
    \* the system allocator
    sys,        \* the platform's heap and the allocer_system call just made
    \* the hash map
    map,        \* the map_header_t with its three arrays
    mapc        \* the map's client: what it put, its last call, its call count

arenaVars == <<sentinel, bump, chunks, backing, allocs, last, limited, aborted, nops>>

wrapperVars == <<vtable, mock, held, call, ncalls>>

layoutVars == <<lay>>

systemVars == <<sys>>

mapVars == <<map, mapc>>

vars == <<arenaVars, wrapperVars, layoutVars, systemVars, mapVars>>

\* ------------------------------------------------------------------------
\* The backing allocator: the tracking mock of tests/test_bump.c, handing
\* out blocks of a finite heap at the alignment asked for
\* ------------------------------------------------------------------------

HeapBase == 257 * CHUNK_ALIGN

HeapEnd == USIZE - PAGE

\* where the platform may start looking for a free block
HeapStarts == {HeapBase, HeapBase + 7 * CHUNK_ALIGN}

RoundUpTo(x, a) == ((x + a - 1) \div a) * a

BlockFree(blocks, a, size) ==
    /\ a + size <= HeapEnd
    /\ \A b \in blocks : a + size <= b.addr \/ b.addr + b.size <= a

Placements(blocks, size, align, base) ==
    {a \in {RoundUpTo(base, align)} \cup
           {RoundUpTo(Max(b.addr + b.size, base), align) : b \in blocks} :
        BlockFree(blocks, a, size)}

SetMin(S) == CHOOSE x \in S : \A y \in S : x <= y

\* mock_alloc: nullptr under simulate_oom (or an exhausted heap), else a block
mock_alloc(bk, size, align, oom, base) ==
    LET places == Placements(bk.blocks, size, align, base)
    IN IF oom \/ places = {}
       THEN [ptr |-> NULL, bk |-> bk]
       ELSE LET a == SetMin(places)
            IN [ptr |-> a,
                bk |-> [bk EXCEPT !.blocks = @ \cup {[addr |-> a, size |-> size, align |-> align]},
                                  !.alloc_calls = @ + 1,
                                  !.alloc_bytes = @ + size]]

\* mock_free: counts the call and the layout's size, releases the block;
\* bad_layouts counts the calls whose layout is not the block's
mock_free(bk, ptr, size, align) ==
    [bk EXCEPT !.blocks = {b \in @ : b.addr # ptr},
               !.free_calls = @ + 1,
               !.free_bytes = @ + size,
               !.bad_frees = @ + (IF \E b \in bk.blocks : b.addr = ptr THEN 0 ELSE 1),
               !.bad_layouts = @ + (IF \E b \in bk.blocks :
                                          b.addr = ptr /\ (b.size # size \/ b.align # align)
                                    THEN 1 ELSE 0)]

\* allocer_free over the mock's vtable: nothing for a null pointer
backing_free(bk, ptr, size, align) ==
    IF ptr = NULL THEN bk ELSE mock_free(bk, ptr, size, align)

\* ------------------------------------------------------------------------
\* bump.c: chunk management
\* ------------------------------------------------------------------------

\* the static sentinel as get_empty_chunk() initialises it
EmptyChunk ==
    [data_start |-> sentinel, chunk_size |-> 0, prev |-> sentinel,
     ptr |-> sentinel, allocated_bytes |-> 0]

chunk_is_empty(footer) == footer = sentinel

\* the real chunks reachable from footer through prev, newest first
RECURSIVE ChunkList(_, _)
ChunkList(chs, footer) ==
    IF chunk_is_empty(footer) \/ footer \notin DOMAIN chs THEN <<>>
    ELSE <<footer>> \o ChunkList(chs, chs[footer].prev)

\* a dealloc_chunk_list that stops after the first chunk of the list
dealloc_chunk_list_first(bk, chs, footer) ==
    IF chunk_is_empty(footer) THEN bk
    ELSE backing_free(bk, chs[footer].data_start, chs[footer].chunk_size, CHUNK_ALIGN)

\* dealloc_chunk_list: every chunk from footer down to the sentinel goes back
\* to the backing allocator as layout(chunk_size, CHUNK_ALIGN)
RECURSIVE dealloc_chunk_list(_, _, _)
dealloc_chunk_list(bk, chs, footer) ==
    IF chunk_is_empty(footer) THEN bk
    ELSE dealloc_chunk_list(
             backing_free(bk, chs[footer].data_start, chs[footer].chunk_size, CHUNK_ALIGN),
             chs, chs[footer].prev)

\* new_chunk: [footer, rec, bk, abort, asked]; footer = NULL when no chunk was
\* made, asked tells what became of the call to the backing allocator
new_chunk(bk, b, chs, size_no_footer, align, prev, oom, base) ==
    LET new_size_no_footer == align_up(size_no_footer, CHUNK_ALIGN)
        none == [footer |-> NULL, rec |-> EmptyChunk, bk |-> bk, abort |-> FALSE,
                 asked |-> "none"]
    IN IF checked_add_overflows(new_size_no_footer, FOOTER_SIZE) THEN none
       ELSE LET alloc_size == align_up(new_size_no_footer + FOOTER_SIZE, align)
            IN IF alloc_size = 0 THEN none
               ELSE LET got == mock_alloc(bk, alloc_size, align, oom, base)
                        data == got.ptr
                        footer_ptr == Wrap(data + new_size_no_footer)
                        rec == [data_start |-> data,
                                chunk_size |-> alloc_size,
                                prev |-> prev,
                                ptr |-> align_down(footer_ptr, b.min_align),
                                allocated_bytes |->
                                    Wrap(chs[prev].allocated_bytes + new_size_no_footer)]
                    IN IF data = NULL THEN [none EXCEPT !.asked = "refused"]
                       ELSE [footer |-> footer_ptr, rec |-> rec, bk |-> got.bk,
                             abort |-> ~(rec.ptr >= rec.data_start), asked |-> "ok"]

\* a fast path that takes the size as asked when align <= min_align
try_alloc_layout_fast_unrounded(footer, min_align, size, align) ==
    LET ptr == footer.ptr
        start == footer.data_start
    IN IF align <= min_align
       THEN IF size > Wrap(ptr - start) THEN NULL ELSE Wrap(ptr - size)
       ELSE LET aligned_size == align_up(size, align)
                aligned_ptr_end == align_down(ptr, align)
                capacity == Wrap(aligned_ptr_end - start)
            IN IF aligned_ptr_end < start THEN NULL
               ELSE IF aligned_size > capacity THEN NULL
               ELSE Wrap(aligned_ptr_end - aligned_size)

\* try_alloc_layout_fast: the address carved from footer, NULL when it has no room
try_alloc_layout_fast(footer, min_align, size, align) ==
    LET ptr == footer.ptr
        start == footer.data_start
    IN IF align <= min_align
       THEN LET aligned_size == align_up(size, min_align)
                capacity == Wrap(ptr - start)
            IN IF aligned_size > capacity THEN NULL
               ELSE Wrap(ptr - aligned_size)
       ELSE LET aligned_size == align_up(size, align)
                aligned_ptr_end == align_down(ptr, align)
                capacity == Wrap(aligned_ptr_end - start)
            IN IF aligned_ptr_end < start THEN NULL
               ELSE IF aligned_size > capacity THEN NULL
               ELSE Wrap(aligned_ptr_end - aligned_size)

\* the massert opening try_alloc_layout_fast
fast_invariant_ok(b, chs) ==
    chunk_is_empty(b.current_chunk) \/ chs[b.current_chunk].ptr % b.min_align = 0

\* the size alloc_layout_slow asks new_chunk for, NULL-ing out on the limit:
\* [oom, size]
slow_chunk_size(b, chs, size, align) ==
    LET current_footer == b.current_chunk
        prev_usable_size ==
            IF chunk_is_empty(current_footer) THEN 0
            ELSE Wrap(chs[current_footer].chunk_size - FOOTER_SIZE)
        doubled ==
            IF checked_mul_overflows(prev_usable_size, 2) THEN SIZE_MAX
            ELSE prev_usable_size * 2
        clamped ==
            IF doubled < DEFAULT_CHUNK_SIZE_WITHOUT_FOOTER
            THEN DEFAULT_CHUNK_SIZE_WITHOUT_FOOTER ELSE doubled
        requested_align == Max(align, b.min_align)
        requested_size == align_up(size, requested_align)
        new_size_no_footer ==
            IF clamped < requested_size THEN requested_size ELSE clamped
        allocated == chs[current_footer].allocated_bytes
        remaining == IF b.limit > allocated THEN b.limit - allocated ELSE 0
    IN IF b.limit # SIZE_MAX /\ new_size_no_footer > remaining
       THEN IF requested_size > remaining
            THEN [oom |-> TRUE, size |-> 0]
            ELSE [oom |-> FALSE, size |-> requested_size]
       ELSE [oom |-> FALSE, size |-> new_size_no_footer]

\* the carve alloc_layout_slow makes in the chunk it has just installed:
\* [res, abort, early]; early is the return on the checked_add
slow_carve(rec, min_align, size, align) ==
    LET ptr == rec.ptr
        start == rec.data_start
    IN IF ptr % min_align # 0 THEN [res |-> NULL, abort |-> TRUE, early |-> FALSE]
       ELSE IF align <= min_align
       THEN IF checked_add_overflows(size, min_align - 1)
            THEN [res |-> NULL, abort |-> FALSE, early |-> TRUE]
            ELSE LET aligned_size == align_up(size, min_align)
                     capacity == Wrap(ptr - start)
                     result_ptr == Wrap(ptr - aligned_size)
                 IN [res |-> result_ptr,
                     abort |-> ~(aligned_size <= capacity)
                               \/ result_ptr % align # 0
                               \/ ~(result_ptr >= start),
                     early |-> FALSE]
       ELSE LET aligned_size == align_up(size, align)
                aligned_ptr_end == align_down(ptr, align)
                capacity == Wrap(aligned_ptr_end - start)
                result_ptr == Wrap(aligned_ptr_end - aligned_size)
            IN [res |-> result_ptr,
                abort |-> ~(aligned_ptr_end >= start)
                          \/ ~(aligned_size <= capacity)
                          \/ result_ptr % align # 0
                          \/ ~(result_ptr >= start),
                early |-> FALSE]

\* a slow path that, when no chunk could be made, falls back to the Empty
\* state without releasing anything
slow_install_forgets(b, chs, bk, size, align, made) ==
    LET carve == slow_carve(made.rec, b.min_align, size, align)
        installed == [b EXCEPT !.current_chunk = made.footer]
    IN IF made.footer = NULL
       THEN [res |-> NULL, abort |-> FALSE,
             b |-> [b EXCEPT !.current_chunk = sentinel], chs |-> chs, bk |-> bk,
             asked |-> made.asked]
       ELSE [res |-> carve.res, abort |-> made.abort \/ carve.abort, b |-> installed,
             chs |-> (made.footer :> [made.rec EXCEPT !.ptr = carve.res]) @@ chs,
             bk |-> made.bk, asked |-> "ok"]

\* steps 5 and 6 of alloc_layout_slow, given what new_chunk returned:
\* [res, abort, b, chs, bk, asked]
slow_install(b, chs, bk, size, align, made) ==
    LET carve == slow_carve(made.rec, b.min_align, size, align)
        installed == [b EXCEPT !.current_chunk = made.footer]
        keep == (made.footer :> made.rec) @@ chs
    IN IF made.footer = NULL
       THEN [res |-> NULL, abort |-> FALSE, b |-> b, chs |-> chs, bk |-> bk,
             asked |-> made.asked]
       ELSE IF made.abort
       THEN [res |-> NULL, abort |-> TRUE, b |-> b, chs |-> keep, bk |-> made.bk,
             asked |-> "ok"]
       ELSE IF carve.abort
       THEN [res |-> NULL, abort |-> TRUE, b |-> installed, chs |-> keep, bk |-> made.bk,
             asked |-> "ok"]
       ELSE IF carve.early
       THEN [res |-> NULL, abort |-> FALSE, b |-> installed, chs |-> keep, bk |-> made.bk,
             asked |-> "ok"]
       ELSE [res |-> carve.res, abort |-> FALSE, b |-> installed,
             chs |-> (made.footer :> [made.rec EXCEPT !.ptr = carve.res]) @@ chs,
             bk |-> made.bk, asked |-> "ok"]

\* alloc_layout_slow: [res, abort, b, chs, bk, asked]
alloc_layout_slow(b, chs, bk, size, align, oom, base) ==
    LET want == slow_chunk_size(b, chs, size, align)
        chunk_align == IF align > Max(CHUNK_ALIGN, b.min_align)
                       THEN align ELSE Max(CHUNK_ALIGN, b.min_align)
    IN IF want.oom
       THEN [res |-> NULL, abort |-> FALSE, b |-> b, chs |-> chs, bk |-> bk,
             asked |-> "none"]
       ELSE slow_install(b, chs, bk, size, align,
                new_chunk(bk, b, chs, want.size, chunk_align, b.current_chunk, oom, base))

\* ------------------------------------------------------------------------
\* bump.c: public API
\* ------------------------------------------------------------------------

\* a bump_alloc_layout without the branch for empty requests
bump_alloc_layout_nozero(b, chs, bk, size, align0, oom, base) ==
    LET cur == chs[b.current_chunk]
        align == IF align0 = 0 \/ ~is_power_of_two(align0) THEN 1 ELSE align0
        fast == try_alloc_layout_fast(cur, b.min_align, size, align)
        slow == alloc_layout_slow(b, chs, bk, size, align, oom, base)
    IN IF ~fast_invariant_ok(b, chs)
       THEN [res |-> NULL, abort |-> TRUE, b |-> b, chs |-> chs, bk |-> bk,
             path |-> "fast", asked |-> "none"]
       ELSE IF fast # NULL
       THEN [res |-> fast, abort |-> FALSE, b |-> b,
             chs |-> [chs EXCEPT ![b.current_chunk].ptr = fast], bk |-> bk,
             path |-> IF size = 0 THEN "zero" ELSE "fast", asked |-> "none"]
       ELSE [res |-> slow.res, abort |-> slow.abort, b |-> slow.b, chs |-> slow.chs,
             bk |-> slow.bk, path |-> IF size = 0 THEN "zero" ELSE "slow",
             asked |-> slow.asked]

\* bump_alloc_layout: [res, abort, b, chs, bk, path, asked]
bump_alloc_layout(b, chs, bk, size, align0, oom, base) ==
    LET cur == chs[b.current_chunk]
        align == IF align0 = 0 \/ ~is_power_of_two(align0) THEN 1 ELSE align0
        fast == try_alloc_layout_fast(cur, b.min_align, size, align)
        slow == alloc_layout_slow(b, chs, bk, size, align, oom, base)
    IN IF size = 0
       THEN \* align_down asserts its alignment
            IF ~is_power_of_two(align0)
            THEN [res |-> NULL, abort |-> TRUE, b |-> b, chs |-> chs, bk |-> bk,
                  path |-> "zero", asked |-> "none"]
            ELSE [res |-> align_down(cur.ptr, align0), abort |-> FALSE, b |-> b,
                  chs |-> chs, bk |-> bk, path |-> "zero", asked |-> "none"]
       ELSE IF ~fast_invariant_ok(b, chs)
       THEN [res |-> NULL, abort |-> TRUE, b |-> b, chs |-> chs, bk |-> bk,
             path |-> "fast", asked |-> "none"]
       ELSE IF fast # NULL
       THEN [res |-> fast, abort |-> FALSE, b |-> b,
             chs |-> [chs EXCEPT ![b.current_chunk].ptr = fast], bk |-> bk,
             path |-> "fast", asked |-> "none"]
       ELSE [res |-> slow.res, abort |-> slow.abort, b |-> slow.b, chs |-> slow.chs,
             bk |-> slow.bk, path |-> "slow", asked |-> slow.asked]

\* a bump_reset that leaves allocated_bytes of the kept chunk as it was
bump_reset_keeps_count(b, chs, bk) ==
    LET current_footer == b.current_chunk
        cur == chs[current_footer]
    IN IF chunk_is_empty(current_footer) THEN [b |-> b, chs |-> chs, bk |-> bk]
       ELSE [b |-> b,
             chs |-> [f \in {sentinel, current_footer} |->
                        IF f = sentinel THEN chs[sentinel]
                        ELSE [cur EXCEPT !.prev = sentinel,
                                         !.ptr = align_down(current_footer, b.min_align)]],
             bk |-> dealloc_chunk_list(bk, chs, cur.prev)]

\* a bump_reset that leaves the bump pointer of the kept chunk where it was
bump_reset_norewind(b, chs, bk) ==
    LET current_footer == b.current_chunk
        cur == chs[current_footer]
        usable_size == Wrap(current_footer - cur.data_start)
    IN IF chunk_is_empty(current_footer) THEN [b |-> b, chs |-> chs, bk |-> bk]
       ELSE [b |-> b,
             chs |-> [f \in {sentinel, current_footer} |->
                        IF f = sentinel THEN chs[sentinel]
                        ELSE [cur EXCEPT !.prev = sentinel,
                                         !.allocated_bytes = usable_size]],
             bk |-> dealloc_chunk_list(bk, chs, cur.prev)]

\* bump_reset: [b, chs, bk]
bump_reset(b, chs, bk) ==
    LET current_footer == b.current_chunk
        cur == chs[current_footer]
        usable_size == Wrap(current_footer - cur.data_start)
    IN IF chunk_is_empty(current_footer) THEN [b |-> b, chs |-> chs, bk |-> bk]
       ELSE [b |-> b,
             chs |-> [f \in {sentinel, current_footer} |->
                        IF f = sentinel THEN chs[sentinel]
                        ELSE [cur EXCEPT !.prev = sentinel,
                                         !.ptr = align_down(current_footer, b.min_align),
                                         !.allocated_bytes = usable_size]],
             bk |-> dealloc_chunk_list(bk, chs, cur.prev)]

\* bump_deinit: [b, chs, bk]
bump_deinit(b, chs, bk) ==
    [b |-> [b EXCEPT !.current_chunk = sentinel],
     chs |-> [f \in {sentinel} |-> chs[sentinel]],
     bk |-> dealloc_chunk_list(bk, chs, b.current_chunk)]

\* bump_get_allocated_bytes
bump_get_allocated_bytes(b, chs) == chs[b.current_chunk].allocated_bytes

\* ------------------------------------------------------------------------
\* The arena under a client: bump_init, then any calls of the public API
\* ------------------------------------------------------------------------

\* where the linker may put the static sentinel: alignof(chunk_footer_t) is
\* all the language promises
SentinelAddrs == {64 * CHUNK_ALIGN, 64 * CHUNK_ALIGN + 8}

MinAligns == {1, CHUNK_ALIGN}

\* a size whose rounding up to an alignment above 8 wraps around
Huge == SIZE_MAX - 7

\* layouts asked of bump_alloc_layout: <<size, align>>
AllocRequests ==
    {<<0, 128>>, <<100, 1>>, <<100, 128>>, <<3000, 1>>, <<Huge, 1>>, <<Huge, 16>>}

\* layouts asked of bump_zalloc
ZallocRequests == {<<100, 16>>}

\* <<new_size, align>> asked of bump_realloc
ReallocRequests == {<<0, 1>>, <<3000, 1>>}

Limits == {100, SIZE_MAX - 1}

\* what the backing allocator does when called: refuse (NULL), or look for
\* a block from one of HeapStarts; it is called only on the slow path
BackingChoices(size, align) ==
    IF size # 0
       /\ try_alloc_layout_fast(chunks[bump.current_chunk], bump.min_align, size,
                                IF is_power_of_two(align) THEN align ELSE 1) = NULL
    THEN HeapStarts \cup {NULL}
    ELSE {HeapBase}

\* what a call leaves in `last` about the state it started from
Before(op) ==
    [op |-> op,
     b |-> bump,
     cur |-> chunks[bump.current_chunk],
     nchunks |-> Len(ChunkList(chunks, bump.current_chunk)),
     alloc_calls |-> backing.alloc_calls,
     free_calls |-> backing.free_calls,
     chs |-> chunks,
     bk |-> backing,
     res |-> last.res,
     size |-> last.size,
     blocks |-> allocs]

NoCall == [op |-> "init", size |-> 0, align |-> 1, res |-> NULL, path |-> "none",
           asked |-> "none", old |-> NULL, old_size |-> 0, pre |-> [op |-> "none"]]

ArenaInit ==
    /\ sentinel \in SentinelAddrs
    /\ \E min_align \in MinAligns :
          \* bump_init
          bump = [current_chunk |-> sentinel, limit |-> SIZE_MAX, min_align |-> min_align]
    /\ chunks = [f \in {sentinel} |-> EmptyChunk]
    /\ backing = [blocks |-> {}, alloc_calls |-> 0, free_calls |-> 0,
                  alloc_bytes |-> 0, free_bytes |-> 0, bad_frees |-> 0,
                  bad_layouts |-> 0]
    /\ allocs = <<>>
    /\ last = NoCall
    /\ limited = FALSE
    /\ aborted = FALSE
    /\ nops = 0

\* Bytes of a block, as runs <<[n, tag, off]>>: n bytes that are bytes
\* off .. off + n - 1 of what allocation number `tag` found in its memory;
\* tag 0 is the zero byte
Fresh(id, size) == IF size = 0 THEN <<>> ELSE <<[n |-> size, tag |-> id, off |-> 0]>>

Zeroed(size) == IF size = 0 THEN <<>> ELSE <<[n |-> size, tag |-> 0, off |-> 0]>>

RECURSIVE Take(_, _)
\* the first n bytes of a block
Take(runs, n) ==
    IF n = 0 \/ runs = <<>> THEN <<>>
    ELSE IF Head(runs).n <= n THEN <<Head(runs)>> \o Take(Tail(runs), n - Head(runs).n)
    ELSE <<[Head(runs) EXCEPT !.n = n]>>

RECURSIVE Drop(_, _)
\* all but the first n bytes of a block
Drop(runs, n) ==
    IF n = 0 \/ runs = <<>> THEN runs
    ELSE IF Head(runs).n <= n THEN Drop(Tail(runs), n - Head(runs).n)
    ELSE <<[Head(runs) EXCEPT !.n = @ - n,
                              !.off = IF Head(runs).tag = 0 THEN 0 ELSE @ + n]>>
         \o Tail(runs)

\* memcpy(dest, src, n) on two blocks that do not overlap: the bytes of dest
\* afterwards
copy_bytes(dest, src, n) == Take(src, n) \o Drop(dest, n)

\* the bytes of the block at ptr, the one handed out last when several start
\* there
BytesAt(blocks, ptr) ==
    LET at == {i \in 1..Len(blocks) : blocks[i].addr = ptr}
    IN IF at = {} THEN <<>> ELSE blocks[CHOOSE i \in at : \A j \in at : j <= i].bytes

\* what a successful call leaves in its block: bump_alloc_layout nothing,
\* bump_zalloc zeros, bump_realloc the first min(old_size, new_size) bytes of
\* the old block
Filled(op, id, size, old, old_size) ==
    IF op = "zalloc" THEN Zeroed(size)
    ELSE IF op = "realloc" /\ old # NULL
    THEN copy_bytes(Fresh(id, size), BytesAt(allocs, old), Min(old_size, size))
    ELSE Fresh(id, size)

\* the part shared by the three allocating calls
Allocate(op, size, align, oom, base, old, old_size) ==
    \E out \in {bump_alloc_layout(bump, chunks, backing, size, align, oom, base)} :
       /\ bump' = out.b
       /\ chunks' = out.chs
       /\ backing' = out.bk
       /\ aborted' = out.abort
       /\ allocs' = IF out.res # NULL /\ size > 0 /\ ~out.abort
                    THEN Append(allocs, [addr |-> out.res, size |-> size,
                                         bytes |-> Filled(op, Len(allocs) + 1, size, old,
                                                          old_size)])
                    ELSE allocs
       /\ last' = [op |-> op, size |-> size, align |-> align, res |-> out.res,
                   path |-> out.path, asked |-> out.asked, old |-> old, old_size |-> old_size,
                   pre |-> Before(last.op)]
       /\ nops' = nops + 1
       /\ UNCHANGED <<sentinel, limited, wrapperVars, layoutVars, systemVars, mapVars>>

\* a call that stops in a massert before touching the arena
Abort(op, size, align, old, old_size) ==
    /\ aborted' = TRUE
    /\ last' = [op |-> op, size |-> size, align |-> align, res |-> NULL,
                path |-> "none", asked |-> "none", old |-> old, old_size |-> old_size, pre |-> Before(last.op)]
    /\ nops' = nops + 1
    /\ UNCHANGED <<sentinel, bump, chunks, backing, allocs, limited, wrapperVars, layoutVars, systemVars, mapVars>>

\* a call that returns nullptr without touching the arena
Nothing(op, size, align, old, old_size) ==
    /\ last' = [op |-> op, size |-> size, align |-> align, res |-> NULL,
                path |-> "none", asked |-> "none", old |-> old, old_size |-> old_size, pre |-> Before(last.op)]
    /\ nops' = nops + 1
    /\ UNCHANGED <<sentinel, bump, chunks, backing, allocs, limited, aborted, wrapperVars, layoutVars, systemVars, mapVars>>

Live == ~aborted /\ nops < MaxOps

BumpAllocLayout(size, align, env) ==
    /\ Live
    /\ Allocate("alloc", size, align, env = NULL, env, NULL, 0)

\* bump_zalloc: the block is zero-filled when it is not null and size > 0
BumpZalloc(size, align, env) ==
    /\ Live
    /\ Allocate("zalloc", size, align, env = NULL, env, NULL, 0)

\* bump_alloc: layout(size, align) asserts the alignment first
bump_alloc(op, size, align, env, old, old_size) ==
    IF layout(size, align).abort THEN Abort(op, size, align, old, old_size)
    ELSE Allocate(op, size, align, env = NULL, env, old, old_size)

\* a bump_realloc that looks at the new size before the old pointer
BumpRealloc_zero_first(old, old_size, new_size, align, env) ==
    /\ Live
    /\ IF new_size = 0 THEN Nothing("realloc", new_size, align, old, old_size)
       ELSE bump_alloc("realloc", new_size, align, env, old, old_size)

\* a bump_realloc that treats a new size of 0 like any other
BumpRealloc_zero_allocates(old, old_size, new_size, align, env) ==
    /\ Live
    /\ bump_alloc("realloc", new_size, align, env, old, old_size)

\* bump_realloc; old is nullptr or a block the arena handed out
BumpRealloc(old, old_size, new_size, align, env) ==
    /\ Live
    /\ IF old = NULL THEN bump_alloc("realloc", new_size, align, env, old, old_size)
       ELSE IF new_size = 0 THEN Nothing("realloc", new_size, align, old, old_size)
       ELSE bump_alloc("realloc", new_size, align, env, old, old_size)

BumpReset ==
    /\ Live
    /\ \E out \in {bump_reset(bump, chunks, backing)} :
          /\ bump' = out.b
          /\ chunks' = out.chs
          /\ backing' = out.bk
    /\ allocs' = <<>>
    /\ last' = [op |-> "reset", size |-> 0, align |-> 1, res |-> NULL,
                path |-> "none", asked |-> "none", old |-> NULL, old_size |-> 0, pre |-> Before(last.op)]
    /\ nops' = nops + 1
    /\ UNCHANGED <<sentinel, limited, aborted, wrapperVars, layoutVars, systemVars, mapVars>>

BumpDeinit ==
    /\ Live
    /\ \E out \in {bump_deinit(bump, chunks, backing)} :
          /\ bump' = out.b
          /\ chunks' = out.chs
          /\ backing' = out.bk
    /\ allocs' = <<>>
    /\ last' = [op |-> "deinit", size |-> 0, align |-> 1, res |-> NULL,
                path |-> "none", asked |-> "none", old |-> NULL, old_size |-> 0, pre |-> Before(last.op)]
    /\ nops' = nops + 1
    /\ UNCHANGED <<sentinel, limited, aborted, wrapperVars, layoutVars, systemVars, mapVars>>

BumpSetAllocationLimit(limit) ==
    /\ Live
    /\ bump' = [bump EXCEPT !.limit = limit]
    /\ limited' = (limit # SIZE_MAX /\ chunk_is_empty(bump.current_chunk))
    /\ last' = [op |-> "set_limit", size |-> limit, align |-> 1, res |-> NULL,
                path |-> "none", asked |-> "none", old |-> NULL, old_size |-> 0, pre |-> Before(last.op)]
    /\ nops' = nops + 1
    /\ UNCHANGED <<sentinel, chunks, backing, allocs, aborted, wrapperVars, layoutVars, systemVars, mapVars>>

\* nullptr, or the block handed out last
OldPtrs == {NULL} \cup {allocs[i].addr : i \in {Len(allocs)} \ {0}}

\* old_size for old: the size the block at old was asked with
OldSizes(old) ==
    IF old = NULL THEN {0} ELSE {allocs[i].size : i \in {Len(allocs)} \ {0}}

Next ==
    \/ \E r \in AllocRequests : \E env \in BackingChoices(r[1], r[2]) :
          BumpAllocLayout(r[1], r[2], env)
    \/ \E r \in ZallocRequests : \E env \in BackingChoices(r[1], r[2]) :
          BumpZalloc(r[1], r[2], env)
    \/ \E old \in OldPtrs, r \in ReallocRequests :
          \E old_size \in OldSizes(old), env \in BackingChoices(r[1], r[2]) :
             BumpRealloc(old, old_size, r[1], r[2], env)
    \/ BumpReset
    \/ BumpDeinit
    \/ \E limit \in Limits : BumpSetAllocationLimit(limit)

\* ------------------------------------------------------------------------
\* The arena under a client that passes any alignment
\* ------------------------------------------------------------------------

\* calls made in one run
MaxAlignOps == 2

\* sizes and alignments asked of bump_alloc_layout and of bump_alloc; 0, 3
\* and 24 are no powers of two
AlignSizes == {0, 100}

AlignAligns == {0, 1, 3, CHUNK_ALIGN, 24}

\* bump_alloc called by the client
BumpAlloc(size, align, env) ==
    /\ Live
    /\ bump_alloc("bump_alloc", size, align, env, NULL, 0)

NextAlign ==
    \/ \E size \in AlignSizes, align \in AlignAligns :
          \E env \in BackingChoices(size, align) :
             nops < MaxAlignOps /\ BumpAllocLayout(size, align, env)
    \/ \E size \in AlignSizes, align \in AlignAligns :
          \E env \in BackingChoices(size, align) :
             nops < MaxAlignOps /\ BumpAlloc(size, align, env)

\* ------------------------------------------------------------------------
\* The arena behind the capability that bump_allocer returns
\* ------------------------------------------------------------------------

\* calls made through the capability in one run
MaxVtOps == 3

\* layouts asked of the capability's alloc: <<size, align>>
VtAllocRequests == {<<100, 1>>, <<3000, 1>>}

\* new layouts asked of the capability's realloc
VtReallocRequests == {<<0, 1>>, <<50, 1>>, <<3000, 1>>, <<Huge, 1>>}

\* old.size passed with ptr: anything when ptr is nullptr, else the size the
\* block was asked with
VtOldSizes(ptr) ==
    IF ptr = NULL THEN {0, 100} ELSE {allocs[i].size : i \in {Len(allocs)} \ {0}}

\* _bump_vt_alloc
BumpVtAlloc(size, align, env) == BumpAllocLayout(size, align, env)

\* _bump_vt_zalloc
BumpVtZalloc(size, align, env) == BumpZalloc(size, align, env)

\* _bump_vt_realloc
BumpVtRealloc(ptr, old_size, new_size, new_align, env) ==
    BumpRealloc(ptr, old_size, new_size, new_align, env)

\* a _bump_vt_free that gives the chunks back when the newest block is freed
BumpVtFree_rewinds(ptr, size) ==
    /\ Live
    /\ \E out \in {bump_reset(bump, chunks, backing)} :
          /\ bump' = out.b
          /\ chunks' = out.chs
          /\ backing' = out.bk
    /\ last' = [op |-> "free", size |-> size, align |-> 1, res |-> NULL,
                path |-> "none", asked |-> "none", old |-> ptr, old_size |-> size,
                pre |-> Before(last.op)]
    /\ nops' = nops + 1
    /\ UNCHANGED <<sentinel, allocs, limited, aborted, wrapperVars, layoutVars, systemVars, mapVars>>

\* _bump_vt_free
BumpVtFree(ptr, size) ==
    /\ Live
    /\ last' = [op |-> "free", size |-> size, align |-> 1, res |-> NULL,
                path |-> "none", asked |-> "none", old |-> ptr, old_size |-> size,
                pre |-> Before(last.op)]
    /\ nops' = nops + 1
    /\ UNCHANGED <<sentinel, bump, chunks, backing, allocs, limited, aborted,
                   wrapperVars, layoutVars, systemVars, mapVars>>

VtLive == nops < MaxVtOps

NextVt ==
    \/ \E r \in VtAllocRequests : \E env \in BackingChoices(r[1], r[2]) :
          VtLive /\ BumpVtAlloc(r[1], r[2], env)
    \/ \E r \in ZallocRequests : \E env \in BackingChoices(r[1], r[2]) :
          VtLive /\ BumpVtZalloc(r[1], r[2], env)
    \/ \E ptr \in OldPtrs, r \in VtReallocRequests :
          \E old_size \in VtOldSizes(ptr), env \in BackingChoices(r[1], r[2]) :
             VtLive /\ BumpVtRealloc(ptr, old_size, r[1], r[2], env)
    \/ \E ptr \in OldPtrs : \E size \in VtOldSizes(ptr) : VtLive /\ BumpVtFree(ptr, size)
    \/ VtLive /\ BumpReset
    \/ VtLive /\ BumpDeinit

\* ------------------------------------------------------------------------
\* core/mem/allocer.h over the static-buffer mock of tests/test_allocer.c
\* ------------------------------------------------------------------------

\* bytes in the mock's buffer (1024 in the test)
BUMP_SIZE == 10

\* wrapper calls explored from a fresh mock
MaxCalls == 3

\* address of BumpState.buffer
BufferBase == 4 * CHUNK_ALIGN

\* the vtables: none at all, alloc alone, the two mandatory slots, the test's
\* bump_vtable (zalloc set, realloc left null), and one with every slot set
NoVtable ==
    [present |-> FALSE, alloc |-> FALSE, free |-> FALSE, realloc |-> FALSE, zalloc |-> FALSE]

Vtables ==
    {NoVtable,
     [present |-> TRUE, alloc |-> TRUE, free |-> FALSE, realloc |-> FALSE, zalloc |-> FALSE],
     [present |-> TRUE, alloc |-> TRUE, free |-> TRUE, realloc |-> FALSE, zalloc |-> FALSE],
     [present |-> TRUE, alloc |-> TRUE, free |-> TRUE, realloc |-> FALSE, zalloc |-> TRUE],
     [present |-> TRUE, alloc |-> TRUE, free |-> TRUE, realloc |-> TRUE, zalloc |-> TRUE]}

\* memset(ptr, 0, n) in the mock's buffer
memset0(s, ptr, n) ==
    [s EXCEPT !.buffer = [i \in DOMAIN s.buffer |->
        IF BufferBase + i >= ptr /\ BufferBase + i < ptr + n THEN 0 ELSE s.buffer[i]]]

\* memcpy(dst, src, n) in the mock's buffer
memcpy(s, dst, src, n) ==
    [s EXCEPT !.buffer = [i \in DOMAIN s.buffer |->
        IF BufferBase + i >= dst /\ BufferBase + i < dst + n
        THEN s.buffer[i - (dst - src)] ELSE s.buffer[i]]]

\* the mock's .alloc: [ptr, s]
mock_bump_alloc(s, l) ==
    LET counted == [s EXCEPT !.alloc_count = @ + 1]
        aligned_offset == align_up(s.offset, l.align)
    IN IF Wrap(aligned_offset + l.size) > BUMP_SIZE
       THEN [ptr |-> NULL, s |-> counted]
       ELSE [ptr |-> BufferBase + aligned_offset,
             s |-> [counted EXCEPT !.offset = Wrap(aligned_offset + l.size)]]

\* the mock's .free: nothing
mock_bump_free(s, ptr, l) == s

\* the mock's .zalloc: [ptr, s]
mock_bump_zalloc(s, l) ==
    LET got == mock_bump_alloc([s EXCEPT !.zalloc_count = @ + 1], l)
    IN IF got.ptr # NULL
       THEN [ptr |-> got.ptr, s |-> memset0(got.s, got.ptr, l.size)]
       ELSE got

\* a backend's own .realloc, as bump.c's over the mock's buffer: a new block
\* and a copy, the old block left alone: [ptr, s]
bump_vt_realloc(s, ptr, old, new) ==
    LET got == mock_bump_alloc(s, new)
    IN IF ptr = NULL THEN got
       ELSE IF new.size = 0 THEN [ptr |-> NULL, s |-> s]
       ELSE IF got.ptr = NULL THEN got
       ELSE [ptr |-> got.ptr,
             s |-> memcpy(got.s, got.ptr, ptr, Min(old.size, new.size))]

NoLayout == layout(0, 1)

\* one call through a vtable slot, as the wrappers' log keeps it
Called(fn, ptr, old, new, res) ==
    [fn |-> fn, ptr |-> ptr, old |-> old, new |-> new, res |-> res]

\* what a wrapper leaves: its result, the mock's state, the slots it called
Ret(res, s, calls) == [res |-> res, s |-> s, calls |-> calls, abort |-> FALSE]

\* a failed massert in a wrapper
Panic(s, calls) == [res |-> NULL, s |-> s, calls |-> calls, abort |-> TRUE]

allocer_alloc(vt, s, l) ==
    IF ~(vt.present /\ vt.alloc) THEN Panic(s, <<>>)
    ELSE LET got == mock_bump_alloc(s, l)
         IN Ret(got.ptr, got.s, <<Called("alloc", NULL, NoLayout, l, got.ptr)>>)

\* an allocer_free that asserts the vtable before it looks at the pointer
allocer_free_assert_first(vt, s, ptr, l) ==
    IF ~(vt.present /\ vt.free) THEN Panic(s, <<>>)
    ELSE IF ptr = NULL THEN Ret(NULL, s, <<>>)
    ELSE Ret(NULL, mock_bump_free(s, ptr, l), <<Called("free", ptr, l, NoLayout, NULL)>>)

allocer_free(vt, s, ptr, l) ==
    IF ptr = NULL THEN Ret(NULL, s, <<>>)
    ELSE IF ~(vt.present /\ vt.free) THEN Panic(s, <<>>)
    ELSE Ret(NULL, mock_bump_free(s, ptr, l), <<Called("free", ptr, l, NoLayout, NULL)>>)

\* an allocer_zalloc whose fallback clears the size rounded up to the alignment
allocer_zalloc_rounded(vt, s, l) ==
    IF ~(vt.present /\ vt.alloc) THEN Panic(s, <<>>)
    ELSE IF vt.zalloc
    THEN LET got == mock_bump_zalloc(s, l)
         IN Ret(got.ptr, got.s, <<Called("zalloc", NULL, NoLayout, l, got.ptr)>>)
    ELSE LET got == mock_bump_alloc(s, l)
         IN Ret(got.ptr,
                IF got.ptr # NULL
                THEN memset0(got.s, got.ptr, align_up(l.size, l.align)) ELSE got.s,
                <<Called("alloc", NULL, NoLayout, l, got.ptr)>>)

allocer_zalloc(vt, s, l) ==
    IF ~(vt.present /\ vt.alloc) THEN Panic(s, <<>>)
    ELSE IF vt.zalloc
    THEN LET got == mock_bump_zalloc(s, l)
         IN Ret(got.ptr, got.s, <<Called("zalloc", NULL, NoLayout, l, got.ptr)>>)
    ELSE LET got == mock_bump_alloc(s, l)
         IN Ret(got.ptr,
                IF got.ptr # NULL THEN memset0(got.s, got.ptr, l.size) ELSE got.s,
                <<Called("alloc", NULL, NoLayout, l, got.ptr)>>)

\* an allocer_realloc whose fallback releases the old block whether or not
\* the new one was obtained
allocer_realloc_always_frees(vt, s, ptr, old, new) ==
    IF ~vt.present THEN Panic(s, <<>>)
    ELSE IF vt.realloc
    THEN LET got == bump_vt_realloc(s, ptr, old, new)
         IN Ret(got.ptr, got.s, <<Called("realloc", ptr, old, new, got.ptr)>>)
    ELSE IF ptr = NULL THEN allocer_alloc(vt, s, new)
    ELSE IF new.size = 0
    THEN allocer_free(vt, s, ptr, old)
    ELSE LET a == allocer_alloc(vt, s, new)
             copied == IF a.res # NULL
                       THEN memcpy(a.s, a.res, ptr, Min(new.size, old.size)) ELSE a.s
             f == allocer_free(vt, copied, ptr, old)
         IN IF a.abort THEN a
            ELSE [res |-> a.res, s |-> f.s, calls |-> a.calls \o f.calls,
                  abort |-> f.abort]

allocer_realloc(vt, s, ptr, old, new) ==
    IF ~vt.present THEN Panic(s, <<>>)
    ELSE IF vt.realloc
    THEN LET got == bump_vt_realloc(s, ptr, old, new)
         IN Ret(got.ptr, got.s, <<Called("realloc", ptr, old, new, got.ptr)>>)
    ELSE IF ptr = NULL THEN allocer_alloc(vt, s, new)
    ELSE IF new.size = 0
    THEN allocer_free(vt, s, ptr, old)
    ELSE LET a == allocer_alloc(vt, s, new)
             copied == memcpy(a.s, a.res, ptr, Min(new.size, old.size))
             f == allocer_free(vt, copied, ptr, old)
         IN IF a.abort \/ a.res = NULL THEN a
            ELSE [res |-> a.res, s |-> f.s, calls |-> a.calls \o f.calls,
                  abort |-> f.abort]

\* ------------------------------------------------------------------------
\* The wrappers under a client
\* ------------------------------------------------------------------------

\* <<size, align>> of the layouts the client asks for
LayoutRequests == {<<0, 1>>, <<3, 2>>, <<6, 1>>}

Layouts == {layout(r[1], r[2]) : r \in LayoutRequests}

\* what the buffer holds before anybody wrote it: zeros as in the test, or not
FreshBytes == {0, 1}

NoWrapperCall ==
    [op |-> "none", ptr |-> NULL, old |-> NoLayout, new |-> NoLayout, res |-> NULL,
     calls |-> <<>>, abort |-> FALSE, pre |-> [offset |-> 0]]

FreshMock(byte) ==
    [buffer |-> [i \in 0..(BUMP_SIZE - 1) |-> byte], offset |-> 0,
     alloc_count |-> 0, zalloc_count |-> 0]

WrapperInit ==
    /\ vtable \in Vtables
    /\ \E byte \in FreshBytes : mock = FreshMock(byte)
    /\ held = <<>>
    /\ call = NoWrapperCall
    /\ ncalls = 0

\* the wrappers' variables when nobody uses them
WrapperIdle ==
    /\ vtable = NoVtable
    /\ mock = FreshMock(0)
    /\ held = <<>>
    /\ call = NoWrapperCall
    /\ ncalls = 0

Running == ~call.abort /\ ncalls < MaxCalls

\* the newest block the client holds
LastHeld == {held[i] : i \in {Len(held)} \ {0}}

Front(seq) == SubSeq(seq, 1, Len(seq) - 1)

Block(ptr, l) == [ptr |-> ptr, size |-> l.size, align |-> l.align]

\* what every wrapper call leaves behind
Wrapped(op, ptr, old, new, out) ==
    /\ mock' = out.s
    /\ call' = [op |-> op, ptr |-> ptr, old |-> old, new |-> new, res |-> out.res,
                calls |-> out.calls, abort |-> out.abort, pre |-> mock]
    /\ ncalls' = ncalls + 1
    /\ UNCHANGED <<vtable, arenaVars, layoutVars, systemVars, mapVars>>

AllocerAlloc(l) ==
    /\ Running
    /\ \E out \in {allocer_alloc(vtable, mock, l)} :
          /\ Wrapped("alloc", NULL, NoLayout, l, out)
          /\ held' = IF out.res # NULL THEN Append(held, Block(out.res, l)) ELSE held

AllocerZalloc(l) ==
    /\ Running
    /\ \E out \in {allocer_zalloc(vtable, mock, l)} :
          /\ Wrapped("zalloc", NULL, NoLayout, l, out)
          /\ held' = IF out.res # NULL THEN Append(held, Block(out.res, l)) ELSE held

AllocerFree(ptr, l) ==
    /\ Running
    /\ \E out \in {allocer_free(vtable, mock, ptr, l)} :
          /\ Wrapped("free", ptr, l, NoLayout, out)
          /\ held' = IF ptr = NULL THEN held ELSE Front(held)

AllocerRealloc(ptr, old, new) ==
    /\ Running
    /\ \E out \in {allocer_realloc(vtable, mock, ptr, old, new)} :
          /\ Wrapped("realloc", ptr, old, new, out)
          /\ held' = LET kept == IF ptr # NULL /\ (out.res # NULL \/ new.size = 0)
                                 THEN Front(held) ELSE held
                     IN IF out.res # NULL THEN Append(kept, Block(out.res, new))
                        ELSE kept

\* the client writes its newest block: byte k of it becomes 2 + k
ClientFill ==
    /\ ~call.abort
    /\ \E b \in LastHeld :
          /\ b.size > 0
          /\ mock' = [mock EXCEPT !.buffer = [i \in DOMAIN mock.buffer |->
                        IF BufferBase + i >= b.ptr /\ BufferBase + i < b.ptr + b.size
                        THEN 2 + (BufferBase + i - b.ptr) ELSE mock.buffer[i]]]
    /\ call' = [NoWrapperCall EXCEPT !.op = "fill"]
    /\ UNCHANGED <<vtable, held, ncalls, arenaVars, layoutVars, systemVars, mapVars>>

\* nullptr with any layout, or the newest block with its own
PtrArgs ==
    {<<NULL, l>> : l \in Layouts} \cup {<<b.ptr, layout(b.size, b.align)>> : b \in LastHeld}

\* nullptr, or the newest block with its own layout
OldArgs ==
    {<<NULL, NoLayout>>} \cup {<<b.ptr, layout(b.size, b.align)>> : b \in LastHeld}

NextAllocer ==
    \/ \E l \in Layouts : AllocerAlloc(l)
    \/ \E l \in Layouts : AllocerZalloc(l)
    \/ \E a \in PtrArgs : AllocerFree(a[1], a[2])
    \/ \E a \in OldArgs, new \in Layouts : AllocerRealloc(a[1], a[2], new)
    \/ ClientFill

\* ------------------------------------------------------------------------
\* The layout constructor under a client
\* ------------------------------------------------------------------------

MaxLayoutSize == 5

MaxLayoutAlign == 17

LayoutSizes == 0..MaxLayoutSize \cup {SIZE_MAX}

LayoutAligns == 0..MaxLayoutAlign \cup {USIZE \div 2, USIZE \div 2 + 1, SIZE_MAX}

\* <<sizeof(T), alignof(T)>> of the item types
ItemTypes == {<<1, 1>>, <<4, 4>>, <<8, 8>>, <<12, 4>>}

\* array lengths, those whose product with an item size wraps included
ItemCounts == {0, 2, 5, USIZE \div 4 + 1, USIZE \div 2, SIZE_MAX}

NoLayoutCall ==
    [op |-> "none", size |-> 0, align |-> 1, n |-> 1, res |-> NoLayout, abort |-> FALSE]

LayoutInit == lay = NoLayoutCall

LayoutIdle == lay = NoLayoutCall

LayoutCall(size, align) ==
    /\ ~lay.abort
    /\ \E out \in {layout(size, align)} :
          lay' = [op |-> "layout", size |-> size, align |-> align, n |-> 1,
                  res |-> out, abort |-> out.abort]
    /\ UNCHANGED <<arenaVars, wrapperVars, systemVars, mapVars>>

\* layout_of_array(T, n); size and align are those of T
LayoutOfArrayCall(item_size, item_align, n) ==
    /\ ~lay.abort
    /\ \E out \in {layout_of_array(item_size, item_align, n)} :
          lay' = [op |-> "layout_of_array", size |-> item_size, align |-> item_align,
                  n |-> n, res |-> out, abort |-> out.abort]
    /\ UNCHANGED <<arenaVars, wrapperVars, systemVars, mapVars>>

NextLayout ==
    \/ \E size \in LayoutSizes, align \in LayoutAligns : LayoutCall(size, align)
    \/ \E t \in ItemTypes, n \in ItemCounts : LayoutOfArrayCall(t[1], t[2], n)

\* ------------------------------------------------------------------------
\* std/allocers/system.c: the capability of allocer_system over the platform
\* ------------------------------------------------------------------------

SIZEOF_VOIDP == 8

\* calls made through the capability in one run
MaxSysCalls == 3

\* which half of the #if the build takes
Platforms == {"posix", "win32"}

\* layouts asked of the capability
SysSizes == {0, 1, 24}

SysAligns == {1, 4, SIZEOF_VOIDP, 2 * SIZEOF_VOIDP}

\* where the platform may put a block
SysAddrs == {k * 2 * SIZEOF_VOIDP : k \in 1..MaxSysCalls}

\* posix_memalign / _aligned_malloc either fail or hand out the lowest
\* address not in use
PlatformChoices ==
    LET free == SysAddrs \ {b.addr : b \in sys.live}
    IN {NULL} \cup {a \in free : \A c \in free : a <= c}

\* _sys_alloc_impl: what the platform primitive is asked for
sys_alloc_impl(platform, size, align) ==
    IF platform = "posix"
    THEN [size |-> size, align |-> IF align < SIZEOF_VOIDP THEN SIZEOF_VOIDP ELSE align]
    ELSE [size |-> size, align |-> align]

NoSysCall == [op |-> "none", size |-> 0, align |-> 1, psize |-> 0, palign |-> 1,
              res |-> NULL]

SystemIdle == sys = [platform |-> "posix", live |-> {}, call |-> NoSysCall, n |-> 0]

SystemInit ==
    \E platform \in Platforms :
       sys = [platform |-> platform, live |-> {}, call |-> NoSysCall, n |-> 0]

\* the platform call made for `asked`, answered with `got`; `zeroed` bytes
\* of the block are then set to 0
SysServe(op, size, align, asked, got, zeroed) ==
    /\ sys.n < MaxSysCalls
    /\ sys' = [sys EXCEPT
                 !.live = IF got = NULL THEN @
                          ELSE @ \cup {[addr |-> got, size |-> asked.size,
                                        zeroed |-> zeroed]},
                 !.call = [op |-> op, size |-> size, align |-> align,
                           psize |-> asked.size, palign |-> asked.align, res |-> got],
                 !.n = @ + 1]
    /\ UNCHANGED <<arenaVars, wrapperVars, layoutVars, mapVars>>

\* sys_vt_alloc
SysVtAlloc(size, align, got) ==
    LET actual_size == IF size = 0 THEN 1 ELSE size
    IN SysServe("alloc", size, align, sys_alloc_impl(sys.platform, actual_size, align),
                got, 0)

\* sys_vt_zalloc
SysVtZalloc(size, align, got) ==
    SysServe("zalloc", size, align, sys_alloc_impl(sys.platform, size, align), got, size)

\* sys_vt_free
SysVtFree(ptr) ==
    /\ sys.n < MaxSysCalls
    /\ sys' = [sys EXCEPT
                 !.live = IF ptr = NULL THEN @ ELSE {b \in @ : b.addr # ptr},
                 !.call = [op |-> "free", size |-> 0, align |-> 1, psize |-> 0,
                           palign |-> 1, res |-> ptr],
                 !.n = @ + 1]
    /\ UNCHANGED <<arenaVars, wrapperVars, layoutVars, mapVars>>

NextSystem ==
    \/ \E size \in SysSizes, align \in SysAligns : \E got \in PlatformChoices :
          SysVtAlloc(size, align, got)
    \/ \E size \in SysSizes, align \in SysAligns : \E got \in PlatformChoices :
          SysVtZalloc(size, align, got)
    \/ \E ptr \in {NULL} \cup {b.addr : b \in sys.live} : SysVtFree(ptr)

\* ------------------------------------------------------------------------
\* std/map.c: the open-addressing map under a client
\* ------------------------------------------------------------------------

MAP_EMPTY == 0

MAP_FULL == 1

MAP_TOMB == 2

\* the capacity the first put gives the map
MAP_FIRST_CAP == 8

\* the capacity the table may grow to in one run
MaxMapCap == 16

MapKeys == 1..3

MapVals == {10, 20}

\* no value: what map_get's nullptr stands for
NoVal == 0

\* ops.hash: FNV-1a of the key's bytes, of which only the bits under cap - 1
\* are used; the model takes hashes that collide, that wrap around the end
\* of the table, and that part when the table doubles
MapHashes ==
    {[k \in MapKeys |-> 7],
     [k \in MapKeys |-> IF k % 2 = 0 THEN 7 ELSE 15],
     [k \in MapKeys |-> k * 3]}

\* an array of cap items as malloc leaves it (the code reads no item it has
\* not written)
MapArray(cap, x) == [i \in 0..(cap - 1) |-> x]

RECURSIVE probe_to_tomb(_, _, _, _, _)
\* a probe that takes a tombstone for the end of the chain
probe_to_tomb(m, key, idx, start_idx, first_tomb) ==
    LET state == m.states[idx]
        next == BitAnd(idx + 1, m.cap - 1)
    IN IF state = MAP_EMPTY \/ state = MAP_TOMB
       THEN [found |-> FALSE, abort |-> FALSE, idx |-> idx]
       ELSE IF state = MAP_FULL /\ m.keys[idx] = key
       THEN [found |-> TRUE, abort |-> FALSE, idx |-> idx]
       ELSE IF next # start_idx THEN probe_to_tomb(m, key, next, start_idx, first_tomb)
       ELSE [found |-> FALSE, abort |-> TRUE, idx |-> 0]

RECURSIVE probe(_, _, _, _, _)
\* the do-while of _find_slot from idx on: [found, idx, abort]
probe(m, key, idx, start_idx, first_tomb) ==
    LET state == m.states[idx]
        tomb == IF state = MAP_TOMB /\ first_tomb = SIZE_MAX THEN idx ELSE first_tomb
        next == BitAnd(idx + 1, m.cap - 1)
    IN IF state = MAP_EMPTY
       THEN [found |-> FALSE, abort |-> FALSE,
             idx |-> IF first_tomb # SIZE_MAX THEN first_tomb ELSE idx]
       ELSE IF state = MAP_FULL /\ m.keys[idx] = key
       THEN [found |-> TRUE, abort |-> FALSE, idx |-> idx]
       ELSE IF next # start_idx THEN probe(m, key, next, start_idx, tomb)
       ELSE IF tomb # SIZE_MAX THEN [found |-> FALSE, abort |-> FALSE, idx |-> tomb]
       ELSE [found |-> FALSE, abort |-> TRUE, idx |-> 0]

\* _find_slot: [found, idx, abort]; with cap 0 out_idx is not written
find_slot(m, key) ==
    IF m.cap = 0 THEN [found |-> FALSE, abort |-> FALSE, idx |-> 0]
    ELSE LET idx == BitAnd(m.hash[key], m.cap - 1)
         IN probe(m, key, idx, idx, SIZE_MAX)

RECURSIVE rehash(_, _, _)
\* the loop of _map_resize from slot i of the old arrays on
rehash(new_m, m, i) ==
    IF i >= m.cap THEN new_m
    ELSE IF m.states[i] # MAP_FULL THEN rehash(new_m, m, i + 1)
    ELSE LET idx == find_slot(new_m, m.keys[i]).idx
         IN rehash([new_m EXCEPT !.keys[idx] = m.keys[i],
                                 !.vals[idx] = m.vals[i],
                                 !.states[idx] = MAP_FULL,
                                 !.len = @ + 1,
                                 !.occupied = @ + 1],
                   m, i + 1)

\* _map_resize with its three allocations granted
map_resize(m, new_cap) ==
    rehash([m EXCEPT !.keys = MapArray(new_cap, 0),
                     !.vals = MapArray(new_cap, 0),
                     !.states = MapArray(new_cap, MAP_EMPTY),
                     !.cap = new_cap,
                     !.len = 0,
                     !.occupied = 0],
           m, 0)

\* _map_put_impl: [ret, m, abort, resized]; granted tells whether the
\* allocator serves a resize
map_put(m, key, val, granted) ==
    LET grow == m.cap = 0 \/ (m.occupied + 1) * 4 >= m.cap * 3
        new_cap == IF m.cap = 0 THEN MAP_FIRST_CAP ELSE m.cap * 2
        m1 == IF grow THEN map_resize(m, new_cap) ELSE m
        slot == find_slot(m1, key)
        m2 == IF slot.found THEN m1
              ELSE [m1 EXCEPT !.keys[slot.idx] = key,
                              !.states[slot.idx] = MAP_FULL,
                              !.len = @ + 1,
                              !.occupied = @ + 1]
    IN IF grow /\ ~granted
       THEN [ret |-> FALSE, m |-> m, abort |-> FALSE, resized |-> FALSE]
       ELSE IF slot.abort
       THEN [ret |-> FALSE, m |-> m1, abort |-> TRUE, resized |-> grow]
       ELSE [ret |-> TRUE, m |-> [m2 EXCEPT !.vals[slot.idx] = val], abort |-> FALSE,
             resized |-> grow]

\* _map_get_impl: the value the returned pointer points to, NoVal for nullptr
map_get(m, key) ==
    IF m.len = 0 THEN NoVal
    ELSE LET slot == find_slot(m, key)
         IN IF slot.found THEN m.vals[slot.idx] ELSE NoVal

\* _map_remove_impl: [ret, m]
map_remove(m, key) ==
    LET slot == find_slot(m, key)
    IN IF m.len = 0 THEN [ret |-> FALSE, m |-> m]
       ELSE IF slot.found
       THEN [ret |-> TRUE, m |-> [m EXCEPT !.states[slot.idx] = MAP_TOMB, !.len = @ - 1]]
       ELSE [ret |-> FALSE, m |-> m]

\* _map_clear_impl
map_clear(m) ==
    IF m.cap > 0
    THEN [m EXCEPT !.states = MapArray(m.cap, MAP_EMPTY), !.len = 0, !.occupied = 0]
    ELSE m

map_len(m) == m.len

\* _map_init_impl
MapHeader(hash) ==
    [keys |-> MapArray(0, 0), vals |-> MapArray(0, 0), states |-> MapArray(0, MAP_EMPTY),
     len |-> 0, cap |-> 0, occupied |-> 0, hash |-> hash]

NoMapCall == [op |-> "init", key |-> 0, val |-> NoVal, ret |-> FALSE, resized |-> FALSE,
              reused |-> FALSE, len |-> 0]

\* the client before it has called anything: `put` is what it has put and not
\* removed or cleared since
NoMapClient ==
    [put |-> [k \in MapKeys |-> NoVal], last |-> NoMapCall, aborted |-> FALSE]

MapIdle ==
    /\ map = MapHeader([k \in MapKeys |-> 7])
    /\ mapc = NoMapClient

MapInit ==
    /\ \E hash \in MapHashes : map = MapHeader(hash)
    /\ mapc = NoMapClient

MapLive == ~mapc.aborted

\* what the allocator may answer when _map_put_impl resizes; a put that
\* does not resize does not ask it
MapGrants(m) ==
    IF m.cap = 0 \/ (m.occupied + 1) * 4 >= m.cap * 3
    THEN {g \in BOOLEAN : g => Max(MAP_FIRST_CAP, m.cap * 2) <= MaxMapCap}
    ELSE {TRUE}

\* map_put(m, key, val)
MapPut(key, val, granted) ==
    /\ MapLive
    /\ \E out \in {map_put(map, key, val, granted)} :
          /\ map' = out.m
          /\ mapc' = [put |-> IF out.ret THEN [mapc.put EXCEPT ![key] = val] ELSE mapc.put,
                      last |-> [op |-> "put", key |-> key, val |-> val, ret |-> out.ret,
                                resized |-> out.resized,
                                reused |-> /\ out.ret
                                           /\ ~out.resized
                                           /\ \E i \in DOMAIN map.states :
                                                 /\ map.states[i] = MAP_TOMB
                                                 /\ out.m.states[i] = MAP_FULL,
                                len |-> map.len],
                      aborted |-> out.abort]
    /\ UNCHANGED <<arenaVars, wrapperVars, layoutVars, systemVars>>

\* map_get(m, key): the client reads the value through the pointer
MapGet(key) ==
    /\ MapLive
    /\ mapc' = [mapc EXCEPT !.last = [op |-> "get", key |-> key, val |-> map_get(map, key),
                                      ret |-> map_get(map, key) # NoVal,
                                      resized |-> FALSE, reused |-> FALSE,
                                      len |-> map.len]]
    /\ UNCHANGED <<map, arenaVars, wrapperVars, layoutVars, systemVars>>

\* map_remove(m, key)
MapRemove(key) ==
    /\ MapLive
    /\ \E out \in {map_remove(map, key)} :
          /\ map' = out.m
          /\ mapc' = [mapc EXCEPT !.put[key] = NoVal,
                                  !.last = [op |-> "remove", key |-> key, val |-> NoVal,
                                            ret |-> out.ret, resized |-> FALSE,
                                            reused |-> FALSE, len |-> map.len]]
    /\ UNCHANGED <<arenaVars, wrapperVars, layoutVars, systemVars>>

\* map_clear(m)
MapClear ==
    /\ MapLive
    /\ map' = map_clear(map)
    /\ mapc' = [mapc EXCEPT !.put = [k \in MapKeys |-> NoVal],
                            !.last = [op |-> "clear", key |-> 0, val |-> NoVal,
                                      ret |-> TRUE, resized |-> FALSE, reused |-> FALSE,
                                      len |-> map.len]]
    /\ UNCHANGED <<arenaVars, wrapperVars, layoutVars, systemVars>>

NextMap ==
    \/ \E key \in MapKeys, val \in MapVals, granted \in MapGrants(map) :
          MapPut(key, val, granted)
    \/ \E key \in MapKeys : MapGet(key)
    \/ \E key \in MapKeys : MapRemove(key)
    \/ MapClear

\* ------------------------------------------------------------------------
\* Specifications
\* ------------------------------------------------------------------------

\* the arena's variables when nobody uses them
ArenaIdle ==
    /\ sentinel = 64 * CHUNK_ALIGN
    /\ bump = [current_chunk |-> sentinel, limit |-> SIZE_MAX, min_align |-> 1]
    /\ chunks = [f \in {sentinel} |-> EmptyChunk]
    /\ backing = [blocks |-> {}, alloc_calls |-> 0, free_calls |-> 0,
                  alloc_bytes |-> 0, free_bytes |-> 0, bad_frees |-> 0,
                  bad_layouts |-> 0]
    /\ allocs = <<>>
    /\ last = NoCall
    /\ limited = FALSE
    /\ aborted = FALSE
    /\ nops = 0

Init == ArenaInit /\ WrapperIdle /\ LayoutIdle /\ SystemIdle /\ MapIdle

\* the bump arena under its client
Spec == Init /\ [][Next]_vars

\* the bump arena under a client that holds its allocer_t
SpecVt == Init /\ [][NextVt]_vars

\* the bump arena under a client that passes any alignment
SpecAlign == Init /\ [][NextAlign]_vars

InitAllocer == ArenaIdle /\ WrapperInit /\ LayoutIdle /\ SystemIdle /\ MapIdle

\* the allocer_t wrappers under their client
SpecAllocer == InitAllocer /\ [][NextAllocer]_vars

InitLayout == ArenaIdle /\ WrapperIdle /\ LayoutInit /\ SystemIdle /\ MapIdle

\* the layout constructor under its client
SpecLayout == InitLayout /\ [][NextLayout]_vars

InitSystem == ArenaIdle /\ WrapperIdle /\ LayoutIdle /\ SystemInit /\ MapIdle

\* the system allocator's capability under its client
SpecSystem == InitSystem /\ [][NextSystem]_vars

InitMap == ArenaIdle /\ WrapperIdle /\ LayoutIdle /\ SystemIdle /\ MapInit

\* the map under its client
SpecMap == InitMap /\ [][NextMap]_vars

\* ------------------------------------------------------------------------
\* Properties
\* ------------------------------------------------------------------------

\* a is 2^k for some k, said without bit operations
IsPowerOfTwo(a) == \E k \in 0..(UsizeBits - 1) : a = 2 ^ k

\* the call just made on the arena was an allocating one
Allocating == last.op \in {"alloc", "zalloc", "realloc"}

\* C1: the byte ranges [address, address + size) of any two blocks handed out
\* by successful non-zero-size allocations on one arena, with no reset or
\* deinit in between, are disjoint.
C1_Disjoint ==
    \A i, j \in 1..Len(allocs) :
        i < j => \/ allocs[i].addr + allocs[i].size <= allocs[j].addr
                 \/ allocs[j].addr + allocs[j].size <= allocs[i].addr

\* C1, the failing run: with min_align 1, a block of 100 bytes and then a
\* block of Huge bytes with align 16 that starts inside the first one.
C1_HugeOverlaps ==
    /\ bump.min_align = 1
    /\ Len(allocs) = 2
    /\ allocs[1].size = 100
    /\ allocs[2].size = Huge
    /\ allocs[1].addr <= allocs[2].addr
    /\ allocs[2].addr < allocs[1].addr + allocs[1].size

\* C2: every successful non-zero-size allocation with a power-of-two align
\* returns an address that is a multiple of align, the backing allocator
\* having returned every chunk aligned as asked.
C2_Aligned ==
    (/\ Allocating
     /\ ~aborted
     /\ last.size > 0
     /\ last.res # NULL
     /\ IsPowerOfTwo(last.align)
     /\ \A b \in backing.blocks : b.addr % b.align = 0)
    => last.res % last.align = 0

\* C2, the failing run: on an Empty arena with min_align 16 whose sentinel
\* lies at 8 modulo 16, a request of Huge bytes with align 16 is answered on
\* the fast path with the sentinel's own address.
C2_HugeGetsSentinel ==
    /\ Allocating
    /\ last.size = Huge
    /\ last.align = 16
    /\ last.path = "fast"
    /\ last.res = sentinel
    /\ last.res % 16 = 8

\* C3: once a limit L was set on an Empty arena, the bytes the arena holds
\* from its backing allocator, and bump_get_allocated_bytes(), never exceed L.
C3_WithinLimit ==
    (limited /\ ~aborted)
    => /\ backing.alloc_bytes - backing.free_bytes <= bump.limit
       /\ bump_get_allocated_bytes(bump, chunks) <= bump.limit

\* C3, the failing run: limit 100 on an Empty arena with min_align 1, then
\* 100 bytes: the arena counts 112 and holds 160.
C3_Holds160Under100 ==
    /\ limited
    /\ bump.limit = 100
    /\ last.size = 100
    /\ last.res # NULL
    /\ bump_get_allocated_bytes(bump, chunks) = 112
    /\ backing.alloc_bytes - backing.free_bytes = 160

\* C4: with a limit set, an allocation that does not fit the current chunk
\* and whose size rounded up to max(align, min_align) is at most the limit
\* minus the allocated count succeeds whenever the backing allocator does not
\* refuse.
C4_GrowsWithinLimit ==
    LET align == IF IsPowerOfTwo(last.align) THEN last.align ELSE 1
        rounded == RoundUpTo(last.size, Max(align, last.pre.b.min_align))
        remaining == last.pre.b.limit - last.pre.cur.allocated_bytes
    IN (/\ Allocating
        /\ last.path = "slow"
        /\ last.pre.b.limit # SIZE_MAX
        /\ last.asked # "refused"
        /\ rounded <= remaining)
       => (last.res # NULL /\ ~aborted)

\* C4, the failing run: limit SIZE_MAX - 1, min_align 1, Huge bytes with
\* align 1: the backing allocator grants the 48 bytes it is asked for and
\* the carve's massert fails.
C4_HugeAborts ==
    /\ aborted
    /\ last.size = Huge
    /\ last.align = 1
    /\ last.pre.b.limit = SIZE_MAX - 1
    /\ last.asked = "ok"
    /\ backing.alloc_bytes = FOOTER_SIZE

\* C5: bump_reset on n >= 1 real chunks makes n - 1 backing frees and no
\* backing alloc, keeps the current chunk alone with its bump pointer at the
\* top; on an Empty arena it makes no backing call; and an allocation right
\* after a reset that fits the kept chunk succeeds inside it with no backing
\* alloc.
C5_ResetKeepsCurrent ==
    LET m == last.pre.b.min_align
        footer == last.pre.b.current_chunk
        start == last.pre.cur.data_start
        top == (footer \div m) * m
        align == IF IsPowerOfTwo(last.align) THEN last.align ELSE 1
        fits == IF align <= m
                THEN RoundUpTo(last.size, m) <= top - start
                ELSE RoundUpTo(last.size, align) <= (top \div align) * align - start
    IN /\ (last.op = "reset" /\ last.pre.nchunks >= 1)
          => /\ backing.free_calls = last.pre.free_calls + last.pre.nchunks - 1
             /\ backing.alloc_calls = last.pre.alloc_calls
             /\ backing.bad_frees = 0
             /\ bump.current_chunk = footer
             /\ ChunkList(chunks, bump.current_chunk) = <<footer>>
             /\ {b.addr : b \in backing.blocks} = {start}
             /\ chunks[footer].ptr = top
       /\ (last.op = "reset" /\ last.pre.nchunks = 0)
          => /\ backing.free_calls = last.pre.free_calls
             /\ backing.alloc_calls = last.pre.alloc_calls
             /\ chunk_is_empty(bump.current_chunk)
       /\ (/\ Allocating
           /\ last.pre.op = "reset"
           /\ last.pre.nchunks >= 1
           /\ last.size > 0
           /\ fits)
          => /\ ~aborted
             /\ last.res # NULL
             /\ backing.alloc_calls = last.pre.alloc_calls
             /\ start <= last.res
             /\ last.res + last.size <= footer

\* C5, reached: two chunks, a reset that frees the older one, then a block
\* taken from the kept chunk.
C5_ReusedAfterReset ==
    /\ last.op = "alloc"
    /\ last.pre.op = "reset"
    /\ last.res # NULL
    /\ last.path = "fast"
    /\ backing.alloc_calls = 2
    /\ backing.free_calls = 1

\* C6: bump_deinit gives every chunk the arena owns back exactly once, so
\* that backing frees equal backing allocs in number and in bytes, and
\* leaves the arena Empty with bump_get_allocated_bytes() = 0; a deinit
\* right after a deinit makes no backing call.
C6_DeinitReleasesAll ==
    last.op = "deinit"
    => /\ backing.blocks = {}
       /\ backing.free_calls = last.pre.free_calls + last.pre.nchunks
       /\ backing.free_calls = backing.alloc_calls
       /\ backing.free_bytes = backing.alloc_bytes
       /\ backing.bad_frees = 0
       /\ chunk_is_empty(bump.current_chunk)
       /\ bump_get_allocated_bytes(bump, chunks) = 0
       /\ last.pre.op = "deinit" => backing.free_calls = last.pre.free_calls

\* C6, reached: a deinit of an arena that owned two chunks.
C6_DeinitOfTwoChunks ==
    /\ last.op = "deinit"
    /\ last.pre.nchunks = 2
    /\ backing.free_calls = 2

\* C7: allocer_free with a null pointer calls no slot of the backend and
\* does not abort, whatever the vtable and the layout.
C7_FreeNullIsNoop ==
    (call.op = "free" /\ call.ptr = NULL)
    => /\ call.calls = <<>>
       /\ ~call.abort
       /\ mock = call.pre

\* C7, reached: a null pointer freed through an allocer whose vtable has no
\* free slot.
C7_FreeNullWithoutSlot ==
    /\ call.op = "free"
    /\ call.ptr = NULL
    /\ ~vtable.free
    /\ call.old.size = 3

\* C8: without a realloc slot (alloc and free set), allocer_realloc is the
\* reference: null ptr -> alloc(new); else new.size = 0 -> one free(ptr, old)
\* and null; else alloc(new), then on success the first min(old.size,
\* new.size) bytes are the old block's and free(ptr, old) is called once, on
\* failure null with no free and no byte changed.
C8_FallbackRealloc ==
    LET ref == mock_bump_alloc(call.pre, call.new)
        asked == Called("alloc", NULL, NoLayout, call.new, ref.ptr)
        freed == Called("free", call.ptr, call.old, NoLayout, NULL)
        n == Min(call.old.size, call.new.size)
    IN (/\ call.op = "realloc"
        /\ vtable.present /\ vtable.alloc /\ vtable.free /\ ~vtable.realloc)
       => /\ ~call.abort
          /\ IF call.ptr = NULL
             THEN call.calls = <<asked>> /\ call.res = ref.ptr
             ELSE IF call.new.size = 0
             THEN call.calls = <<freed>> /\ call.res = NULL /\ mock = call.pre
             ELSE IF ref.ptr # NULL
             THEN /\ call.calls = <<asked, freed>>
                  /\ call.res = ref.ptr
                  /\ \A k \in 0..(n - 1) :
                        mock.buffer[call.res - BufferBase + k]
                            = call.pre.buffer[call.ptr - BufferBase + k]
             ELSE /\ call.calls = <<asked>>
                  /\ call.res = NULL
                  /\ mock.buffer = call.pre.buffer

\* C8, reached: a block the client wrote is reallocated to a smaller one
\* through the fallback, and the new block is elsewhere.
C8_ShrunkByFallback ==
    /\ call.op = "realloc"
    /\ ~vtable.realloc
    /\ call.ptr # NULL
    /\ call.res # NULL
    /\ call.res # call.ptr
    /\ call.old.size = 6
    /\ call.new.size = 3
    /\ call.pre.buffer[call.ptr - BufferBase] = 2
    /\ Len(call.calls) = 2

\* C9: without a zalloc slot allocer_zalloc calls alloc(layout) once and, if
\* that is not null, zeroes the layout.size bytes of the block and no other
\* byte; null changes nothing.  With a zalloc slot (for allocer_realloc, a
\* realloc slot) the wrapper makes that one call and returns its result.
C9_ZallocFallback ==
    LET ref == mock_bump_alloc(call.pre, call.new)
        inblock(i) == /\ BufferBase + i >= call.res
                      /\ BufferBase + i < call.res + call.new.size
    IN /\ (call.op = "zalloc" /\ vtable.present /\ vtable.alloc /\ ~vtable.zalloc)
          => /\ ~call.abort
             /\ call.calls = <<Called("alloc", NULL, NoLayout, call.new, ref.ptr)>>
             /\ call.res = ref.ptr
             /\ mock.alloc_count = call.pre.alloc_count + 1
             /\ IF call.res # NULL
                THEN \A i \in DOMAIN mock.buffer :
                        mock.buffer[i] = IF inblock(i) THEN 0 ELSE call.pre.buffer[i]
                ELSE mock.buffer = call.pre.buffer
       /\ (call.op = "zalloc" /\ vtable.present /\ vtable.alloc /\ vtable.zalloc)
          => /\ call.calls = <<Called("zalloc", NULL, NoLayout, call.new, call.res)>>
             /\ call.res = mock_bump_zalloc(call.pre, call.new).ptr
             /\ mock.zalloc_count = call.pre.zalloc_count + 1
       /\ (call.op = "realloc" /\ vtable.present /\ vtable.realloc)
          => /\ call.calls = <<Called("realloc", call.ptr, call.old, call.new, call.res)>>
             /\ call.res = bump_vt_realloc(call.pre, call.ptr, call.old, call.new).ptr

\* C9, reached: the fallback zeroes a 3-byte block of a buffer that held
\* ones, and the byte after the block is still one.
C9_ThreeBytesZeroed ==
    /\ call.op = "zalloc"
    /\ ~vtable.zalloc
    /\ call.res # NULL
    /\ call.new.size = 3
    /\ call.pre.buffer[call.res - BufferBase + 2] = 1
    /\ mock.buffer[call.res - BufferBase + 2] = 0
    /\ mock.buffer[call.res - BufferBase + 3] = 1

\* C10: layout(size, align) aborts when align is 0 or no power of two, and
\* for a power of two returns the layout of exactly that size and align; so
\* a layout made by the constructor has a power-of-two align.
C10_LayoutChecksAlign ==
    lay.op = "layout"
    => /\ lay.abort <=> ~IsPowerOfTwo(lay.align)
       /\ ~lay.abort => /\ lay.res.size = lay.size
                        /\ lay.res.align = lay.align
                        /\ IsPowerOfTwo(lay.res.align)

\* C10, reached: layout(size, 0) has aborted.
C10_ZeroAlignAborts ==
    /\ lay.op = "layout"
    /\ lay.align = 0
    /\ lay.abort

\* C11: layout_of_array gives size item_size * N and align item_align, and
\* fails when item_size * N does not fit a usize instead of giving a layout
\* with a wrapped size.
C11_ArrayOverflowChecked ==
    lay.op = "layout_of_array"
    => IF lay.size * lay.n > SIZE_MAX
       THEN lay.abort
       ELSE /\ ~lay.abort
            /\ lay.res.size = lay.size * lay.n
            /\ lay.res.align = lay.align

\* C11, the failing run: an array of 2^(w-2) + 1 items of 4 bytes gets a
\* layout of 4 bytes.
C11_WrappedArray ==
    /\ lay.op = "layout_of_array"
    /\ lay.size = 4
    /\ lay.n = USIZE \div 4 + 1
    /\ ~lay.abort
    /\ lay.res.size = 4

\* C12: for every request size, those whose rounding wraps included,
\* bump_alloc_layout does not abort, and a non-null result is the start of
\* last.size bytes lying inside one chunk the arena owns.
C12_HugeReturnsNull ==
    (Allocating /\ last.size > 0)
    => /\ ~aborted
       /\ last.res # NULL
          => \E f \in DOMAIN chunks \ {sentinel} :
                /\ chunks[f].data_start <= last.res
                /\ last.res + last.size <= f

\* C12, the failing run: with no limit and min_align 1, Huge bytes with
\* align 1 asked of an Empty arena: the new chunk is a bare footer and the
\* carve's massert fails.
C12_HugeAbortsInCarve ==
    /\ aborted
    /\ last.op = "alloc"
    /\ last.size = Huge
    /\ last.path = "slow"
    /\ last.asked = "ok"
    /\ last.pre.b.limit = SIZE_MAX
    /\ last.pre.nchunks = 0

\* C13: when an allocation of size > 0 returns null, the arena and the
\* backing allocator are exactly as before the call (current chunk, bump
\* pointer, chain, allocated bytes, live blocks), and a request made right
\* after it that fits the current chunk succeeds on the fast path.
C13_NullLeavesArena ==
    LET m == last.pre.b.min_align
        top == last.pre.cur.ptr
        start == last.pre.cur.data_start
        align == IF IsPowerOfTwo(last.align) THEN last.align ELSE 1
        fits == IF align <= m
                THEN RoundUpTo(last.size, m) <= top - start
                ELSE RoundUpTo(last.size, align) <= (top \div align) * align - start
    IN /\ (Allocating /\ ~aborted /\ last.size > 0 /\ last.res = NULL)
          => /\ bump = last.pre.b
             /\ chunks = last.pre.chs
             /\ backing = last.pre.bk
             /\ bump_get_allocated_bytes(bump, chunks) = last.pre.cur.allocated_bytes
       /\ (/\ Allocating
           /\ last.pre.op \in {"alloc", "zalloc", "realloc"}
           /\ last.pre.size > 0
           /\ last.pre.res = NULL
           /\ last.size > 0
           /\ fits)
          => /\ ~aborted
             /\ last.res # NULL
             /\ last.path = "fast"
             /\ backing = last.pre.bk

\* C13, reached: the backing allocator refuses the second chunk of an
\* Active arena, and the next request is served from the first chunk.
C13_ServedAfterRefusal ==
    /\ last.op = "alloc"
    /\ last.pre.op = "alloc"
    /\ last.pre.res = NULL
    /\ last.pre.size = 3000
    /\ last.pre.nchunks = 1
    /\ last.size = 100
    /\ last.res # NULL
    /\ backing.alloc_calls = 1

\* C14: an allocation of size 0 (by alloc, zalloc, or realloc of a null
\* pointer) leaves the arena and the backing allocator exactly as they were
\* and returns the current bump pointer rounded down to the requested
\* alignment.
C14_ZeroSizeIsPure ==
    (/\ Allocating
     /\ last.size = 0
     /\ last.old = NULL
     /\ IsPowerOfTwo(last.align))
    => /\ ~aborted
       /\ bump = last.pre.b
       /\ chunks = last.pre.chs
       /\ backing = last.pre.bk
       /\ last.asked = "none"
       /\ last.res = (last.pre.cur.ptr \div last.align) * last.align
       /\ last.res <= last.pre.cur.ptr
       /\ last.pre.cur.ptr - last.res < last.align

\* C14, reached: an empty request with alignment 128 on an Active arena
\* whose bump pointer is not a multiple of 128.
C14_ZeroSizeRoundedDown ==
    /\ last.op = "alloc"
    /\ last.size = 0
    /\ last.align = 128
    /\ last.pre.nchunks = 1
    /\ last.pre.cur.ptr % 128 # 0
    /\ last.res = last.pre.cur.ptr - (last.pre.cur.ptr % 128)
    /\ chunks[bump.current_chunk].ptr = last.pre.cur.ptr

\* C15: bump_realloc with a null old pointer does what bump_alloc(new_size,
\* align) does on the same arena, whatever old_size is: the same result, the
\* same arena and backing state afterwards, and a block with nothing copied
\* into it.
C15_ReallocNullIsAlloc ==
    (last.op = "realloc" /\ last.old = NULL)
    => IF layout(last.size, last.align).abort
       THEN /\ aborted
            /\ bump = last.pre.b
            /\ chunks = last.pre.chs
            /\ backing = last.pre.bk
       ELSE \E env \in HeapStarts \cup {NULL} :
               \E out \in {bump_alloc_layout(last.pre.b, last.pre.chs, last.pre.bk,
                                             last.size, last.align, env = NULL, env)} :
                  /\ last.res = out.res
                  /\ last.path = out.path
                  /\ aborted = out.abort
                  /\ bump = out.b
                  /\ chunks = out.chs
                  /\ backing = out.bk
                  /\ allocs = IF out.res # NULL /\ last.size > 0 /\ ~out.abort
                              THEN Append(last.pre.blocks,
                                          [addr |-> out.res, size |-> last.size,
                                           bytes |-> Fresh(Len(last.pre.blocks) + 1,
                                                           last.size)])
                              ELSE last.pre.blocks

\* C15, reached: realloc(nullptr, 100, 0, 1) on an Active arena returns the
\* bump pointer, as a zero-size bump_alloc does.
C15_NullZeroGivesPointer ==
    /\ last.op = "realloc"
    /\ last.old = NULL
    /\ last.old_size = 100
    /\ last.size = 0
    /\ last.pre.nchunks = 1
    /\ last.res = last.pre.cur.ptr
    /\ last.res # NULL

\* C16: bump_realloc with a non-null old pointer and new_size > 0 never
\* aborts; when it succeeds the block it returns is new (it overlaps no block
\* handed out before), its first min(old_size, new_size) bytes are those of
\* the old block, and the old block is still there unchanged; when it fails
\* it returns null and the arena and its blocks are as before.
C16_ReallocCopies ==
    (last.op = "realloc" /\ last.old # NULL /\ last.size > 0)
    => /\ ~aborted
       /\ IF last.res # NULL
          THEN LET new == allocs[Len(allocs)]
                   n == Min(last.old_size, last.size)
               IN /\ Len(allocs) = Len(last.pre.blocks) + 1
                  /\ SubSeq(allocs, 1, Len(last.pre.blocks)) = last.pre.blocks
                  /\ new.addr = last.res
                  /\ new.size = last.size
                  /\ \A i \in 1..Len(last.pre.blocks) :
                        \/ new.addr + new.size <= last.pre.blocks[i].addr
                        \/ last.pre.blocks[i].addr + last.pre.blocks[i].size <= new.addr
                  /\ Take(new.bytes, n) = Take(BytesAt(last.pre.blocks, last.old), n)
                  /\ n > 0 => Take(new.bytes, n) # <<>>
          ELSE /\ bump = last.pre.b
               /\ chunks = last.pre.chs
               /\ backing = last.pre.bk
               /\ allocs = last.pre.blocks

\* C16, the failing run: with min_align 16, growing the newest block to Huge
\* bytes succeeds on the fast path and returns the old block's own address.
C16_HugeReallocReturnsOld ==
    /\ last.op = "realloc"
    /\ last.old # NULL
    /\ last.size = Huge
    /\ last.pre.b.min_align = CHUNK_ALIGN
    /\ ~aborted
    /\ last.path = "fast"
    /\ last.res = last.old

\* C17: bump_realloc with a non-null old pointer and new_size = 0 returns
\* null, changes nothing in the arena, calls the backing allocator not at
\* all, and the old block is still among the arena's blocks.
C17_ReallocToZero ==
    (last.op = "realloc" /\ last.old # NULL /\ last.size = 0)
    => /\ last.res = NULL
       /\ ~aborted
       /\ bump = last.pre.b
       /\ chunks = last.pre.chs
       /\ backing = last.pre.bk
       /\ allocs = last.pre.blocks
       /\ \E i \in 1..Len(allocs) : allocs[i].addr = last.old

\* C17, reached: the 100-byte block of a one-chunk arena is reallocated to
\* size 0.
C17_ShrunkToNothing ==
    /\ last.op = "realloc"
    /\ last.old # NULL
    /\ last.old_size = 100
    /\ last.size = 0
    /\ last.res = NULL
    /\ last.pre.nchunks = 1
    /\ Len(allocs) = 1
    /\ backing.alloc_calls = 1
    /\ backing.free_calls = 0

\* C18: the backing allocator's free is called only by reset and deinit: a
\* call of alloc, zalloc, realloc or free through the capability makes no
\* backing free and releases no chunk, and free through the capability
\* leaves the arena, its blocks and the backing allocator exactly as they
\* were.
C18_OnlyBulkRelease ==
    /\ (last.op # "init" /\ backing.free_calls # last.pre.free_calls)
       => last.op \in {"reset", "deinit"}
    /\ last.op \in {"alloc", "zalloc", "realloc", "free"}
       => /\ backing.free_calls = last.pre.free_calls
          /\ backing.free_bytes = last.pre.bk.free_bytes
          /\ last.pre.bk.blocks \subseteq backing.blocks
          /\ DOMAIN last.pre.chs \subseteq DOMAIN chunks
          /\ \A f \in DOMAIN last.pre.chs \ {bump.current_chunk, last.pre.b.current_chunk} :
                chunks[f] = last.pre.chs[f]
    /\ last.op = "free"
       => /\ ~aborted
          /\ bump = last.pre.b
          /\ chunks = last.pre.chs
          /\ backing = last.pre.bk
          /\ allocs = last.pre.blocks

\* C18, reached: the newest block of a two-chunk arena is freed through the
\* capability, and both chunks are still held.
C18_FreeKeepsBothChunks ==
    /\ last.op = "free"
    /\ last.old # NULL
    /\ last.pre.nchunks = 2
    /\ Len(ChunkList(chunks, bump.current_chunk)) = 2
    /\ backing.alloc_calls = 2
    /\ backing.free_calls = 0
    /\ Len(allocs) = 2

\* C19: after bump_init the backing allocator has not been called and the
\* arena is Empty; a call leaves an Empty arena Active only if it is a
\* successful allocation of size > 0, and a successful allocation of size > 0
\* on an Empty arena makes exactly one backing alloc call and leaves it
\* Active; an Active arena becomes Empty only by deinit, and reset keeps it
\* Active.
C19_Lifecycle ==
    LET was_empty == last.pre.nchunks = 0
        is_empty == chunk_is_empty(bump.current_chunk)
        succeeded == Allocating /\ last.size > 0 /\ last.res # NULL
    IN IF last.op = "init"
       THEN /\ is_empty
            /\ backing.alloc_calls = 0
            /\ backing.free_calls = 0
       ELSE ~aborted
            => /\ (was_empty /\ ~is_empty) => succeeded
               /\ (was_empty /\ succeeded)
                  => /\ ~is_empty
                     /\ backing.alloc_calls = last.pre.alloc_calls + 1
               /\ (~was_empty /\ is_empty) => last.op = "deinit"
               /\ (~was_empty /\ last.op = "reset") => ~is_empty
               /\ last.op = "deinit" => is_empty

\* C19, the failing run: on an Empty arena with min_align 16 a request of Huge
\* bytes succeeds with no backing call and the arena is still Empty.
C19_HugeLeavesEmpty ==
    /\ last.op = "alloc"
    /\ last.size = Huge
    /\ last.pre.nchunks = 0
    /\ last.res # NULL
    /\ ~aborted
    /\ chunk_is_empty(bump.current_chunk)
    /\ backing.alloc_calls = last.pre.alloc_calls

\* C20: whenever the system allocator's alloc or zalloc serves a request,
\* a size of 0 reaches the platform primitive as 1, and an alignment below
\* the pointer size reaches it as the pointer size.
C20_ZeroSizeBecomesOne ==
    sys.call.op \in {"alloc", "zalloc"}
    => /\ sys.call.size = 0 => sys.call.psize = 1
       /\ sys.call.psize # 0
       /\ sys.call.align < SIZEOF_VOIDP => sys.call.palign = SIZEOF_VOIDP

\* C20, the failing run: on the POSIX build a zalloc of size 0 asks
\* posix_memalign for 0 bytes.
C20_ZallocAsksForZero ==
    /\ sys.platform = "posix"
    /\ sys.call.op = "zalloc"
    /\ sys.call.size = 0
    /\ sys.call.align = 1
    /\ sys.call.psize = 0
    /\ sys.call.palign = SIZEOF_VOIDP

\* C21: bump_alloc_layout and bump_alloc, given an alignment that is 0 or
\* no power of two, do not abort and do what they do for alignment 1 on the
\* same arena: the same result and the same arena and backing state, for
\* size 0 as for other sizes.
C21_BadAlignCoerced ==
    (last.op \in {"alloc", "bump_alloc"} /\ ~IsPowerOfTwo(last.align))
    => /\ ~aborted
       /\ \E env \in HeapStarts \cup {NULL} :
             \E out \in {bump_alloc_layout(last.pre.b, last.pre.chs, last.pre.bk,
                                           last.size, 1, env = NULL, env)} :
                /\ last.res = out.res
                /\ bump = out.b
                /\ chunks = out.chs
                /\ backing = out.bk

\* C21, the failing run: bump_alloc(100, 3) aborts in layout() before the
\* arena is asked.
C21_ShorthandAborts ==
    /\ last.op = "bump_alloc"
    /\ last.size = 100
    /\ last.align = 3
    /\ aborted
    /\ last.path = "none"
    /\ bump = last.pre.b

\* C22: in every state of a map the client has only put to, removed from
\* and cleared, map_get(k) gives the value of the latest put of k that no
\* remove or clear has undone and nullptr for every other key, and map_len is
\* the number of keys it gives a value for; a put of a key already present
\* leaves map_len as it was; a put the allocator refuses changes nothing.
C22_GetReturnsLatestPut ==
    ~mapc.aborted
    => /\ \A k \in MapKeys : map_get(map, k) = mapc.put[k]
       /\ map_len(map) = Cardinality({k \in MapKeys : mapc.put[k] # NoVal})
       /\ (mapc.last.op = "put" /\ mapc.last.ret)
          => map_len(map) \in {mapc.last.len, mapc.last.len + 1}
       /\ mapc.last.op = "get" => mapc.last.val = mapc.put[mapc.last.key]

\* C22, reached: a put that doubled a table of 8 slots with tombstones in
\* it, after which four keys are present.
C22_AfterRehash ==
    /\ mapc.last.op = "put"
    /\ mapc.last.resized
    /\ map.cap = 2 * MAP_FIRST_CAP
    /\ map.len = 2
    /\ mapc.last.len = 1
    /\ \E k \in MapKeys : mapc.put[k] = NoVal

\* C30: in every state of a map, occupied = len + the number of tombstone
\* slots.
C30_OccupiedCountsTombs ==
    ~mapc.aborted
    => map.occupied
       = map.len + Cardinality({i \in DOMAIN map.states : map.states[i] = MAP_TOMB})

\* C30, the failing run: a put lands in a tombstone slot and occupied goes up
\* although len + tombstones does not.
C30_TombReuseOvercounts ==
    /\ mapc.last.op = "put"
    /\ mapc.last.reused
    /\ map.len = 1
    /\ \A i \in DOMAIN map.states : map.states[i] # MAP_TOMB
    /\ map.occupied = 2

\* C23: in every state every real chunk of the chain has data_start <=
\* bump pointer <= footer address, and the address a successful allocation
\* of size > 0 returns lies in [data_start, footer) of a real chunk of the
\* chain.
C23_PointerInsideChunk ==
    ~aborted
    => /\ \A f \in DOMAIN chunks \ {sentinel} :
             /\ chunks[f].data_start <= chunks[f].ptr
             /\ chunks[f].ptr <= f
       /\ (Allocating /\ last.size > 0 /\ last.res # NULL)
          => \E i \in 1..Len(ChunkList(chunks, bump.current_chunk)) :
                LET f == ChunkList(chunks, bump.current_chunk)[i]
                IN /\ chunks[f].data_start <= last.res
                   /\ last.res < f

\* C23, the failing run: after a reset the bump pointer of the kept chunk is
\* its footer address, and a request of Huge bytes is handed that address.
C23_HugeGetsFooter ==
    /\ last.op = "alloc"
    /\ last.size = Huge
    /\ last.pre.op = "reset"
    /\ last.pre.nchunks = 1
    /\ ~aborted
    /\ last.res = bump.current_chunk

\* C24: in every state the bump pointer of every real chunk is a multiple of
\* the arena's min_align, and no call aborts on the assertion that opens the
\* fast path.
C24_PointerKeepsMinAlign ==
    /\ \A f \in DOMAIN chunks \ {sentinel} : chunks[f].ptr % bump.min_align = 0
    /\ ~(aborted /\ last.path = "fast")

\* C24, reached: with min_align 16 a request of 100 bytes at alignment 1 is
\* carved on the fast path and moves the bump pointer by 112.
C24_FastCarveRounded ==
    /\ bump.min_align = CHUNK_ALIGN
    /\ last.op = "alloc"
    /\ last.path = "fast"
    /\ last.size = 100
    /\ last.align = 1
    /\ last.pre.nchunks = 1
    /\ chunks[bump.current_chunk].ptr = last.pre.cur.ptr - 112

RECURSIVE UsableSum(_, _)
\* the usable sizes (footer address - data_start) of the chunks in a list of
\* footers, added up
UsableSum(chs, footers) ==
    IF footers = <<>> THEN 0
    ELSE Head(footers) - chs[Head(footers)].data_start + UsableSum(chs, Tail(footers))

MaxGrowOps == 3

\* layouts asked of bump_alloc_layout: one that fills a chunk padded for its
\* alignment, and ones that the next chunk has to be made for
GrowRequests == {<<100, 1>>, <<3000, 1>>, <<5000, 128>>}

\* a limit below the default chunk size, and no limit
GrowLimits == {2000, SIZE_MAX}

NextGrow ==
    \/ \E r \in GrowRequests : \E env \in BackingChoices(r[1], r[2]) :
          nops < MaxGrowOps /\ BumpAllocLayout(r[1], r[2], env)
    \/ \E limit \in GrowLimits :
          nops < MaxGrowOps /\ BumpSetAllocationLimit(limit)

SpecGrow == Init /\ [][NextGrow]_vars

\* the usable capacity of the chunk at footer f: the bytes below the footer
Usable(chs, f) == f - chs[f].data_start

\* the call before made a chunk
MadeChunk ==
    /\ last.op = "alloc" /\ last.path = "slow" /\ last.asked = "ok" /\ ~aborted
    /\ bump.current_chunk # last.pre.b.current_chunk

\* C26: a chunk made with no limit set has as usable size the largest of
\* twice the usable capacity of the chunk that was current (0 when Empty,
\* SIZE_MAX when the doubling overflows), the default 4096 - FOOTER_SIZE and
\* the request rounded up to max(align, min_align), as new_chunk rounds it
\* to CHUNK_ALIGN; so it is never smaller than the chunk before it.
C26_GrowthIsDoubling ==
    (MadeChunk /\ last.pre.b.limit = SIZE_MAX)
    => LET was == last.pre.b.current_chunk
           prev_usable == IF chunk_is_empty(was) THEN 0 ELSE Usable(last.pre.chs, was)
           doubled == Min(2 * prev_usable, SIZE_MAX)
           rounded == align_up(last.size, Max(last.align, bump.min_align))
           candidate == Max(Max(doubled, DEFAULT_CHUNK_SIZE_WITHOUT_FOOTER), rounded)
       IN /\ Usable(chunks, bump.current_chunk) = align_up(candidate, CHUNK_ALIGN)
          /\ Usable(chunks, bump.current_chunk) >= prev_usable

\* C26, refuted: the chunk made after one of 5120 usable bytes that was
\* padded to 5248 for its alignment of 128 has 2 * (5248 - 48) = 10400
\* usable bytes, not 2 * 5120.
C26_DoublesPaddedSize ==
    /\ MadeChunk /\ last.pre.b.limit = SIZE_MAX
    /\ last.size = 3000
    /\ Usable(last.pre.chs, last.pre.b.current_chunk) = 5120
    /\ last.pre.cur.chunk_size = 5248
    /\ Usable(chunks, bump.current_chunk) = 10400

\* what is left of the limit when the call before started
RemainingBefore ==
    IF last.pre.b.limit > last.pre.cur.allocated_bytes
    THEN last.pre.b.limit - last.pre.cur.allocated_bytes ELSE 0

\* the size alloc_layout_slow would take with no limit, when the call
\* before started
CandidateBefore ==
    slow_chunk_size([last.pre.b EXCEPT !.limit = SIZE_MAX], last.pre.chs,
                    last.size, last.align).size

\* C27: a chunk made under a limit, when the doubled or default size
\* exceeds what is left of the limit and the rounded request does not, has
\* all that is left of the limit as its usable size.
C27_ShrunkToRemaining ==
    (/\ MadeChunk /\ last.pre.b.limit # SIZE_MAX
     /\ CandidateBefore > RemainingBefore
     /\ align_up(last.size, Max(last.align, bump.min_align)) <= RemainingBefore)
    => Usable(chunks, bump.current_chunk) = align_up(RemainingBefore, CHUNK_ALIGN)

\* C27, refuted: under a limit of 2000 the chunk made for 100 bytes on the
\* Empty arena has 112 usable bytes, the request rounded to CHUNK_ALIGN.
C27_ShrunkToRequest ==
    /\ MadeChunk /\ last.pre.b.limit = 2000
    /\ chunk_is_empty(last.pre.b.current_chunk)
    /\ last.size = 100 /\ last.align = 1
    /\ RemainingBefore = 2000
    /\ Usable(chunks, bump.current_chunk) = 112
    /\ bump_get_allocated_bytes(bump, chunks) = 112

\* C28: in every state the sentinel chunk has the fields it started with
\* (chunk_size 0, ptr = data_start, allocated_bytes 0, prev itself), its
\* address was never passed to the backing allocator's free, and no
\* successful allocation of size > 0 was served from it.
C28_SentinelUntouched ==
    /\ chunks[sentinel] = EmptyChunk
    /\ chunks[sentinel].ptr = chunks[sentinel].data_start
    /\ backing.bad_frees = 0
    /\ \A b \in backing.blocks : b.addr # sentinel
    /\ ~(/\ Allocating /\ ~aborted
         /\ last.size > 0 /\ last.res # NULL
         /\ chunk_is_empty(last.pre.b.current_chunk)
         /\ last.path = "fast")

\* C28, the failing run: on an Empty arena a request of Huge bytes with
\* align 16 is served on the fast path from the sentinel chunk, whose bump
\* pointer it returns.
C28_HugeServedFromSentinel ==
    /\ last.op = "alloc"
    /\ last.size = Huge
    /\ last.align = 16
    /\ chunk_is_empty(last.pre.b.current_chunk)
    /\ last.path = "fast"
    /\ ~aborted
    /\ last.res = last.pre.cur.ptr
    /\ last.res = sentinel
    /\ backing.alloc_calls = 0

\* C29: every chunk the arena has returned to the backing allocator was
\* returned with the size and the alignment it was obtained with.
C29_FreedAsAllocated == backing.bad_layouts = 0

\* C29, the failing run: the chunk made on the Empty arena for 100 bytes
\* with align 128 was obtained with layout {4096, 128}; deinit returns it
\* with the alignment CHUNK_ALIGN.
C29_FreedWithChunkAlign ==
    /\ last.op = "deinit"
    /\ last.pre.op = "alloc"
    /\ last.pre.nchunks = 1
    /\ last.pre.bk.blocks = {[addr |-> last.pre.cur.data_start, size |-> PAGE, align |-> 128]}
    /\ backing.blocks = {}
    /\ backing.free_calls = 1
    /\ backing.free_bytes = PAGE
    /\ backing.bad_frees = 0
    /\ backing.bad_layouts = 1

====
